---------------------------- MODULE Spec2Model ----------------------------
(***************************************************************************)
(* Vehicle verification loop of interface/main.py: serial telemetry is     *)
(* parsed, published to latest_sensor.json, compared with the distance     *)
(* threshold, and a capture / detect / OCR / roster-verification / filing  *)
(* cycle is run synchronously for every frame below the threshold.         *)
(*                                                                         *)
(* Numbers that are floats in the source are kept as integers: distances,  *)
(* temperatures and battery levels in tenths (8.5 is 85), confidences in   *)
(* thousandths (0.9 is 900).  Time is counted in whole seconds.            *)
(***************************************************************************)
EXTENDS Integers, Sequences, FiniteSets, TLC

(***************************************************************************)
(* Bounds of the model.                                                    *)
(***************************************************************************)
\* The clock stops at MaxTime seconds.
MaxTime == 6
\* Lines the input buffer of the port holds for an unscripted feed.
MaxBuf == 1
\* Lines of a probing feed.
FeedLen == 2
\* Spans readtext returns in a probing run.
SpanLen == 2

\* Threads one SerialReader creates in a run.
MaxThreads == 3

\* Lines the threads of a SerialReader read in a run.
MaxReads == 2

\* Calls of MLProcessor() in a run.
MaxCalls == 5

\* Rows verify_scanned_plate adds to verification_log in a run of roster calls.
MaxRows == 2

\* Times the pipeline runs on one image of the watched folder.
MaxRuns == 2
\* Detection confidences of a probing run: so many thousandths to either
\* side of 0.9.
ConfSpan == 5

(***************************************************************************)
(* Program constants.                                                      *)
(***************************************************************************)
\* Python's None where the source holds a float or None.
NONE == -99999
\* DISTANCE_THRESHOLD = 10.0, in tenths.
DISTANCE_THRESHOLD == 100
\* DISTANCE_SENTINEL = -1.0 and TEMP_SENTINEL = -999.0, in tenths.
DISTANCE_SENTINEL == -10
TEMP_SENTINEL == -9990
\* time.sleep(4) after a cycle.
RETRIGGER_SLEEP == 4

(***************************************************************************)
(* Text: a line is a sequence of one-character strings.                    *)
(***************************************************************************)
Digits == {"0", "1", "2", "3", "4", "5", "6", "7", "8", "9"}

DigitVal(c) ==
    CASE c = "0" -> 0 [] c = "1" -> 1 [] c = "2" -> 2 [] c = "3" -> 3
      [] c = "4" -> 4 [] c = "5" -> 5 [] c = "6" -> 6 [] c = "7" -> 7
      [] c = "8" -> 8 [] c = "9" -> 9

\* s[i..j], empty when j < i.
Slice(s, i, j) == IF j < i THEN << >> ELSE SubSeq(s, i, j)

\* str.strip(): drop the blanks at both ends.
RECURSIVE LStrip(_)
LStrip(s) == IF s # << >> /\ Head(s) = " " THEN LStrip(Tail(s)) ELSE s

RECURSIVE RStrip(_)
RStrip(s) ==
    IF s # << >> /\ s[Len(s)] = " " THEN RStrip(Slice(s, 1, Len(s) - 1)) ELSE s

Strip(s) == LStrip(RStrip(s))

\* str.split(sep): the pieces between the occurrences of sep.
RECURSIVE SplitFrom(_, _, _, _)
SplitFrom(s, sep, i, cur) ==
    IF i > Len(s) THEN << cur >>
    ELSE IF s[i] = sep THEN << cur >> \o SplitFrom(s, sep, i + 1, << >>)
    ELSE SplitFrom(s, sep, i + 1, Append(cur, s[i]))

Split(s, sep) == SplitFrom(s, sep, 1, << >>)

\* str.startswith(prefix)
StartsWith(s, prefix) ==
    Len(s) >= Len(prefix) /\ SubSeq(s, 1, Len(prefix)) = prefix

\* Number of digits of s starting at position i.
RECURSIVE DigitRun(_, _)
DigitRun(s, i) ==
    IF i <= Len(s) /\ s[i] \in Digits THEN 1 + DigitRun(s, i + 1) ELSE 0

\* The match of \d*\.?\d+ that starts at j: the position after it, 0 for none.
\* Greedy with backtracking: the digits, a point and more digits when there
\* are any after the point, else the digits alone.
NumberEnd(s, j) ==
    LET n == DigitRun(s, j)
        k == j + n
        m == IF k <= Len(s) /\ s[k] = "." THEN DigitRun(s, k + 1) ELSE 0
    IN  IF m >= 1 THEN k + 1 + m
        ELSE IF n >= 1 THEN k
        ELSE 0

\* The match of [-+]?\d*\.?\d+ that starts at i: the position after it, 0 for none.
MatchEnd(s, i) ==
    IF s[i] \in {"-", "+"} THEN NumberEnd(s, i + 1) ELSE NumberEnd(s, i)

\* re.search(r'[-+]?\d*\.?\d+', s): the leftmost match, << >> for none.
RECURSIVE SearchFrom(_, _)
SearchFrom(s, i) ==
    IF i > Len(s) THEN << >>
    ELSE IF MatchEnd(s, i) # 0 THEN SubSeq(s, i, MatchEnd(s, i) - 1)
    ELSE SearchFrom(s, i + 1)

ReSearchNumber(s) == SearchFrom(s, 1)

\* The value of a run of digits.
RECURSIVE DigitsValue(_)
DigitsValue(ds) ==
    IF ds = << >> THEN 0
    ELSE 10 * DigitsValue(Slice(ds, 1, Len(ds) - 1)) + DigitVal(ds[Len(ds)])

\* float(m) of a matched number, in tenths; the inputs of the model carry at
\* most one digit after the point.
FloatTenths(m) ==
    LET neg == Head(m) = "-"
        u == IF Head(m) \in {"-", "+"} THEN Tail(m) ELSE m
        n == DigitRun(u, 1)
        whole == DigitsValue(Slice(u, 1, n))
        frac == IF n < Len(u) /\ n + 2 <= Len(u) THEN DigitVal(u[n + 2]) ELSE 0
        v == 10 * whole + frac
    IN  IF neg THEN 0 - v ELSE v

NA == <<"N", "/", "A">>

\* _extract_and_convert(part_str, sentinel_value)
ExtractAndConvert(part_str, sentinel_value) ==
    LET pieces == Split(part_str, ":")
        str_value == Strip(pieces[Len(pieces)])
        match == ReSearchNumber(str_value)
    IN  IF str_value = NA THEN sentinel_value
        ELSE IF match = << >> THEN sentinel_value
        ELSE FloatTenths(match)

\* What parse_serial_line returns for (None, None, None).
Rejected == [ok |-> FALSE, distance |-> NONE, temp |-> NONE, battery |-> NONE]

\* Mutant: a frame is returned whatever the distance field holds.
ParseSerialLineAnyDistance(line) ==
    LET parts == Split(Strip(line), ",")
        distance_value == ExtractAndConvert(parts[1], DISTANCE_SENTINEL)
        temp == ExtractAndConvert(parts[2], TEMP_SENTINEL)
        battery == ExtractAndConvert(parts[3], DISTANCE_SENTINEL)
    IN  IF Len(parts) # 3 THEN Rejected
        ELSE [ok |-> TRUE, distance |-> distance_value, temp |-> temp,
              battery |-> battery]

\* parse_serial_line(line)
ParseSerialLine(line) ==
    LET parts == Split(Strip(line), ",")
        distance_value == ExtractAndConvert(parts[1], DISTANCE_SENTINEL)
        temp == ExtractAndConvert(parts[2], TEMP_SENTINEL)
        battery == ExtractAndConvert(parts[3], DISTANCE_SENTINEL)
    IN  IF Len(parts) # 3 THEN Rejected
        ELSE IF distance_value = DISTANCE_SENTINEL THEN Rejected
        ELSE [ok |-> TRUE, distance |-> distance_value, temp |-> temp,
              battery |-> battery]

DistancePrefix == <<"d", "i", "s", "t", "a", "n", "c", "e", ":">>

(***************************************************************************)
(* The lines the sensor board sends in the model.                          *)
(***************************************************************************)
\* 1: distance: 60, temperature: 98.6F, battery: 55%
\* 2: distance: 8, temperature: 70, battery: 50
\* 3: distance: 8.5cm, temperature: N/A, battery: N/A
\* 4: distance: N/A, temperature: 70, battery: 50
\* 5: battery: 50
\* 6: distance: 9.9, temperature: 70
\* 7: distance: 8.5cm, temperature: 98.6F, battery: 55%
\* 8: distance: 60, temperature: N/A, battery: 50
\* 9: distance: 60, temperature: 70, battery: N/A
\* 10: distance: N/A, temperature: N/A, battery: N/A
\* 11: distance: cm, temperature: 70, battery: 50
\* 12: distance: 60, temperature: F, battery: %
\* 13: distance: 6x0, temperature: 70, battery: 50
\* 14: distance: 60, temperature: 7x0, battery: 50
\* 15: distance: 60, battery: 50, temperature: 70
\* 16: distance: 60, speed: 70, load: 50
\* 17: distance: 60, temperature: 70, battery: 50, rssi: 3
\* 18: distance: 60, temperature: N/A, battery: -1
\* 19: temperature: 70, distance: 60, battery: 50
\* 20: distance: 60.0cm, temperature: -4.5C, battery: .5%
\* 21: distance: -1cm, temperature: 98.6F, battery: 55%
\* 22: distance: 60, temperature: -999, battery: 50
\* 23: distance: -1, temperature: 70, battery: 50
LineText ==
    << <<"d","i","s","t","a","n","c","e",":"," ","6","0",","," ","t","e","m","p","e","r","a","t","u","r","e",":"," ","9","8",".","6","F",","," ","b","a","t","t","e","r","y",":"," ","5","5","%">>,
       <<"d","i","s","t","a","n","c","e",":"," ","8",","," ","t","e","m","p","e","r","a","t","u","r","e",":"," ","7","0",","," ","b","a","t","t","e","r","y",":"," ","5","0">>,
       <<"d","i","s","t","a","n","c","e",":"," ","8",".","5","c","m",","," ","t","e","m","p","e","r","a","t","u","r","e",":"," ","N","/","A",","," ","b","a","t","t","e","r","y",":"," ","N","/","A">>,
       <<"d","i","s","t","a","n","c","e",":"," ","N","/","A",","," ","t","e","m","p","e","r","a","t","u","r","e",":"," ","7","0",","," ","b","a","t","t","e","r","y",":"," ","5","0">>,
       <<"b","a","t","t","e","r","y",":"," ","5","0">>,
       <<"d","i","s","t","a","n","c","e",":"," ","9",".","9",","," ","t","e","m","p","e","r","a","t","u","r","e",":"," ","7","0">>,
       <<"d","i","s","t","a","n","c","e",":"," ","8",".","5","c","m",","," ","t","e","m","p","e","r","a","t","u","r","e",":"," ","9","8",".","6","F",","," ","b","a","t","t","e","r","y",":"," ","5","5","%">>,
       <<"d","i","s","t","a","n","c","e",":"," ","6","0",","," ","t","e","m","p","e","r","a","t","u","r","e",":"," ","N","/","A",","," ","b","a","t","t","e","r","y",":"," ","5","0">>,
       <<"d","i","s","t","a","n","c","e",":"," ","6","0",","," ","t","e","m","p","e","r","a","t","u","r","e",":"," ","7","0",","," ","b","a","t","t","e","r","y",":"," ","N","/","A">>,
       <<"d","i","s","t","a","n","c","e",":"," ","N","/","A",","," ","t","e","m","p","e","r","a","t","u","r","e",":"," ","N","/","A",","," ","b","a","t","t","e","r","y",":"," ","N","/","A">>,
       <<"d","i","s","t","a","n","c","e",":"," ","c","m",","," ","t","e","m","p","e","r","a","t","u","r","e",":"," ","7","0",","," ","b","a","t","t","e","r","y",":"," ","5","0">>,
       <<"d","i","s","t","a","n","c","e",":"," ","6","0",","," ","t","e","m","p","e","r","a","t","u","r","e",":"," ","F",","," ","b","a","t","t","e","r","y",":"," ","%">>,
       <<"d","i","s","t","a","n","c","e",":"," ","6","x","0",","," ","t","e","m","p","e","r","a","t","u","r","e",":"," ","7","0",","," ","b","a","t","t","e","r","y",":"," ","5","0">>,
       <<"d","i","s","t","a","n","c","e",":"," ","6","0",","," ","t","e","m","p","e","r","a","t","u","r","e",":"," ","7","x","0",","," ","b","a","t","t","e","r","y",":"," ","5","0">>,
       <<"d","i","s","t","a","n","c","e",":"," ","6","0",","," ","b","a","t","t","e","r","y",":"," ","5","0",","," ","t","e","m","p","e","r","a","t","u","r","e",":"," ","7","0">>,
       <<"d","i","s","t","a","n","c","e",":"," ","6","0",","," ","s","p","e","e","d",":"," ","7","0",","," ","l","o","a","d",":"," ","5","0">>,
       <<"d","i","s","t","a","n","c","e",":"," ","6","0",","," ","t","e","m","p","e","r","a","t","u","r","e",":"," ","7","0",","," ","b","a","t","t","e","r","y",":"," ","5","0",","," ","r","s","s","i",":"," ","3">>,
       <<"d","i","s","t","a","n","c","e",":"," ","6","0",","," ","t","e","m","p","e","r","a","t","u","r","e",":"," ","N","/","A",","," ","b","a","t","t","e","r","y",":"," ","-","1">>,
       <<"t","e","m","p","e","r","a","t","u","r","e",":"," ","7","0",","," ","d","i","s","t","a","n","c","e",":"," ","6","0",","," ","b","a","t","t","e","r","y",":"," ","5","0">>,
       <<"d","i","s","t","a","n","c","e",":"," ","6","0",".","0","c","m",","," ","t","e","m","p","e","r","a","t","u","r","e",":"," ","-","4",".","5","C",","," ","b","a","t","t","e","r","y",":"," ",".","5","%">>,
       <<"d","i","s","t","a","n","c","e",":"," ","-","1","c","m",","," ","t","e","m","p","e","r","a","t","u","r","e",":"," ","9","8",".","6","F",","," ","b","a","t","t","e","r","y",":"," ","5","5","%">>,
       <<"d","i","s","t","a","n","c","e",":"," ","6","0",","," ","t","e","m","p","e","r","a","t","u","r","e",":"," ","-","9","9","9",","," ","b","a","t","t","e","r","y",":"," ","5","0">>,
       <<"d","i","s","t","a","n","c","e",":"," ","-","1",","," ","t","e","m","p","e","r","a","t","u","r","e",":"," ","7","0",","," ","b","a","t","t","e","r","y",":"," ","5","0">> >>

Lines == 1 .. Len(LineText)

\* The lines of an unscripted feed: far, near, distance N/A, no distance.
FeedLines == {1, 3, 4, 5}


(***************************************************************************)
(* Values the external engines return in the model.                        *)
(***************************************************************************)
\* Detection confidence of the best box (CONF_THRESHOLD = 0.4 and above).
YoloConfs == {900}
\* ocr_license_plate's (plate_text, avg_conf), after its cleaning.
OcrResults ==
    { [text |-> "", conf |-> 0],
      [text |-> "ABC123", conf |-> 800],
      [text |-> "ZZZ999", conf |-> 800] }

\* The students table when the loop starts.
InitialRoster == { [student_id |-> "S1", license_plate |-> "ABC123"] }

\* scanned_plate.strip().upper() on the plate texts of the model.
NormalizePlate(scanned_plate) ==
    CASE scanned_plate = "abc123" -> "ABC123"
      [] scanned_plate = " ABC123 " -> "ABC123"
      [] scanned_plate = "zzz999" -> "ZZZ999"
      [] OTHER -> scanned_plate

\* Mutant: the confidence of the recognition alone, as in ml_processor.py.
OverallConfidenceOcrOnly(yolo_conf, ocr_conf) == {ocr_conf}

\* round((yolo_conf + ocr_conf) / 2, 3), in thousandths: the values round()
\* can return.  A mean that ends in half a thousandth is not a binary float;
\* the float that stands for it lies above or below, and round() goes to that
\* side: either neighbour, by the digits the model leaves out.
OverallConfidence(yolo_conf, ocr_conf) ==
    LET s == yolo_conf + ocr_conf
        h == s \div 2
    IN  IF s % 2 = 0 THEN {h} ELSE {h, h + 1}

(***************************************************************************)
(* ocr_license_plate of ml_utils.py on the spans of the engine: a span is  *)
(* a text, a sequence of one-character strings, and a confidence.          *)
(***************************************************************************)
UpperLetters ==
    {"A", "B", "C", "D", "E", "F", "G", "H", "I", "J", "K", "L", "M", "N",
     "O", "P", "Q", "R", "S", "T", "U", "V", "W", "X", "Y", "Z"}
LowerLetters == {"a", "b", "c"}

\* c.isalnum() on the characters of the model.
IsAlnum(c) == c \in UpperLetters \cup LowerLetters \cup Digits

\* c.upper()
Upper(c) ==
    CASE c = "a" -> "A" [] c = "b" -> "B" [] c = "c" -> "C" [] OTHER -> c

\* ''.join(c for c in text if c.isalnum()).upper()
RECURSIVE Cleaned(_)
Cleaned(text) ==
    IF text = << >> THEN << >>
    ELSE IF IsAlnum(Head(text))
    THEN << Upper(Head(text)) >> \o Cleaned(Tail(text))
    ELSE Cleaned(Tail(text))

\* The spans whose cleaned text is not empty, cleaned: texts and confs.
RECURSIVE Kept(_)
Kept(result) ==
    IF result = << >> THEN << >>
    ELSE LET cleaned == Cleaned(Head(result).text)
         IN  IF cleaned # << >>
             THEN << [text |-> cleaned, conf |-> Head(result).conf] >>
                     \o Kept(Tail(result))
             ELSE Kept(Tail(result))

\* ''.join(texts)
RECURSIVE Join(_)
Join(spans) ==
    IF spans = << >> THEN << >> ELSE Head(spans).text \o Join(Tail(spans))

\* sum(confs)
RECURSIVE SumConfs(_)
SumConfs(spans) ==
    IF spans = << >> THEN 0 ELSE Head(spans).conf + SumConfs(Tail(spans))

\* s.replace(old, ""): the occurrences of old are dropped, left to right.
RECURSIVE Remove(_, _)
Remove(s, old) ==
    IF Len(s) < Len(old) THEN s
    ELSE IF SubSeq(s, 1, Len(old)) = old
    THEN Remove(Slice(s, Len(old) + 1, Len(s)), old)
    ELSE << Head(s) >> \o Remove(Tail(s), old)

LoneStarKuad == << "T", "H", "E", "L", "O", "N", "E", "S", "T", "A", "R", "S", "T", "A", "T", "E", "K", "U", "A", "D" >>
LoneStar == << "T", "H", "E", "L", "O", "N", "E", "S", "T", "A", "R", "S", "T", "A", "T", "E" >>
Texas == << "T", "E", "X", "A", "S" >>

\* The characters of [A-Z0-9] that follow one another from position i, 8
\* at the most.
RECURSIVE BlockLen(_, _, _)
BlockLen(s, i, n) ==
    IF n < 8 /\ i + n <= Len(s) /\ s[i + n] \in UpperLetters \cup Digits
    THEN BlockLen(s, i, n + 1)
    ELSE n

\* re.findall(r'[A-Z0-9]{6,8}', s) from position i on.
RECURSIVE FindAllFrom(_, _)
FindAllFrom(s, i) ==
    IF i > Len(s) THEN << >>
    ELSE LET n == BlockLen(s, i, 0)
         IN  IF n >= 6
             THEN << SubSeq(s, i, i + n - 1) >> \o FindAllFrom(s, i + n)
             ELSE FindAllFrom(s, i + 1)

\* max(matches, key=len): the first of the longest.
RECURSIVE MaxByLen(_)
MaxByLen(matches) ==
    IF Len(matches) = 1 THEN Head(matches)
    ELSE LET rest == MaxByLen(Tail(matches))
         IN  IF Len(Head(matches)) >= Len(rest) THEN Head(matches) ELSE rest

\* Mutant: the text is returned as it was joined.
FinalPlateAsJoined(plate_text) == plate_text

\* The "text cleanup" of ocr_license_plate: final_plate.
FinalPlate(plate_text) ==
    LET cleaned_text == Remove(Remove(Remove(plate_text, LoneStarKuad),
                                      LoneStar), Texas)
        matches == FindAllFrom(cleaned_text, 1)
    IN  IF matches # << >> THEN MaxByLen(matches) ELSE cleaned_text

\* ocr_license_plate(cropped_img) when readtext returned result, and when it
\* raised: (plate_text, avg_conf).  The confidences of the model divide evenly.
OcrLicensePlate(rt) ==
    LET kept == Kept(rt.result)
    IN  IF ~rt.ok \/ rt.result = << >> \/ kept = << >>
        THEN [called |-> TRUE, plate_text |-> << >>, avg_conf |-> 0]
        ELSE [called |-> TRUE, plate_text |-> FinalPlate(Join(kept)),
              avg_conf |-> SumConfs(kept) \div Len(kept)]

\* The texts and the confidences of the spans of a probing run.
SpanTexts ==
    { << "A", "B", "C", "-", "1", "2", "3" >>,
      << "a", "b", "c", " ", "1", "2", "3", "4" >>,
      << "T", "E", "X", "A", "S" >>,
      << "-", "-" >>,
      << "A", "B" >>,
      << "A", "B", "C", "D", "E", "F", "G", "H", "I", "J" >>,
      << "T", "H", "E", " ", "L", "O", "N", "E", " ", "S", "T", "A", "R", " ", "S", "T", "A", "T", "E" >> }
SpanConfs == {600, 900}

(***************************************************************************)
(* State.                                                                  *)
(***************************************************************************)
VARIABLES
    now,                \* the wall clock, in seconds
    inbuf,              \* lines waiting in the serial input buffer
    script,             \* lines of a scripted feed that have not arrived yet
    pc,                 \* where the loop of main() stands
    frame,              \* distance_value, temp, battery of the current frame
    previous_distance,  \* the global previous_distance
    wakeAt,             \* when the time.sleep(4) in progress returns
    snapshot,           \* the content of latest_sensor.json
    photos,             \* the files of PHOTO_DIR (their timestamps)
    flagged,            \* the files of FLAGGED_DIR
    ledger,             \* the rows of verification_log
    roster,             \* the rows of students
    attempt,            \* photo_path, cropped, confidences, text, result
    cooldownUntil,      \* observer: time of the last firing + 4
    inflight,           \* observer: capture cycles started and not ended
    disp,               \* observer: the branch the last ended cycle took
    calls,              \* observer: engines invoked by the current cycle
    before,             \* observer: ledger and files when the cycle started
    fault,              \* observer: a filing or ledger call of the cycle failed
    fired,              \* observer: scripted lines that started a cycle
    pending,            \* lines of a probing feed that have not been sent yet
    sent,               \* observer: lines of the probing feed delivered so far
    data,               \* the dict save_latest_sensor_data is writing
    seen,               \* what load_sensor_data of the dashboard returned last
    sys,                \* picam, ser and the last word of main() on its exit
    readtext,           \* the spans ocr_reader.readtext returned
    plate_read,         \* what ocr_license_plate returned for them
    reader,             \* a SerialReader, its threads and its caller
    mlp,                \* the class MLProcessor, its files and its callers
    db,                 \* the last call of student_db and what it returned
    watch               \* process_folder: the watched folder and what was done

env == << now, inbuf, script >>
loop == << pc, frame, previous_distance, wakeAt, attempt >>
store == << snapshot, photos, flagged, ledger, roster >>
obs == << cooldownUntil, inflight, disp, calls, before, fault, fired >>
side == << pending, sent, data, seen >>
probe == << readtext, plate_read >>
units == << reader, mlp, db, watch >>
vars == << env, loop, store, obs, side, probe, units, sys >>

NoFrame == [distance |-> NONE, temp |-> NONE, battery |-> NONE]
NoSnapshot ==
    [temperature |-> NONE, battery |-> NONE, distance |-> NONE, last_update |-> NONE]
NoAttempt ==
    [photo_path |-> NONE, cropped |-> FALSE, yolo_conf |-> 0, plate_text |-> "",
     ocr_conf |-> 0, confidence |-> 0, match_found |-> FALSE]

\* The camera started and the port open (main.py:149-159), the loop running.
Running == [picam |-> "started", ser |-> "open", diag |-> "NONE"]

\* readtext has returned no span, ocr_license_plate has not been called.
NoSpans == [ok |-> TRUE, result |-> << >>]
NoRead == [called |-> FALSE, plate_text |-> << >>, avg_conf |-> 0]

\* latest_sensor.json after open(SENSOR_JSON, "w") and before the dump has
\* reached it: no complete JSON document.
TruncatedFile == [truncated |-> TRUE]

\* No write of latest_sensor.json is in progress: the dict being written,
\* whether the file is open for writing, whether the write was logged as
\* "Failed to write".
NoData == [dict |-> NoSnapshot, open |-> FALSE, failed |-> FALSE]

\* load_sensor_data() of the dashboard on the content of latest_sensor.json:
\* no file, a file json.loads cannot parse, a complete document.
LoadResult(file) ==
    IF file = NoSnapshot
    THEN [temperature |-> NONE, battery |-> NONE, distance |-> NONE,
          last_update |-> NONE, status |-> "No data yet"]
    ELSE IF file = TruncatedFile
    THEN [temperature |-> NONE, battery |-> NONE, distance |-> NONE,
          last_update |-> NONE, status |-> "Error reading data"]
    ELSE [temperature |-> file.temperature, battery |-> file.battery,
          distance |-> file.distance, last_update |-> file.last_update,
          status |-> "loaded"]

\* The file FLAGGED_DIR / "<stem>.jpg" and FLAGGED_DIR / "<stem>_cropped.jpg".
FullName(stem) == << stem, "jpg" >>
CroppedName(stem) == << stem, "cropped" >>

\* The threads a SerialReader can create, by the order of their creation.
Threads == 1 .. MaxThreads

\* SerialReader.__init__: the event is clear and self.thread is None (no
\* thread); no thread has been created, the caller is in neither start() nor
\* stop().  wanted observes that start() has returned and stop() has not
\* been called since; reads counts the lines read.
NoReader ==
    [stop_event |-> FALSE, thread |-> 0, where |-> [t \in Threads |-> "new"],
     caller |-> "idle", wanted |-> FALSE, reads |-> 0]

\* cls._instance: None, the object super().__new__ has just returned, and
\* the object with all its attributes.
NoInstance == [made |-> FALSE, yolo_model |-> FALSE, ocr_reader |-> FALSE]
BareInstance == [made |-> TRUE, yolo_model |-> FALSE, ocr_reader |-> FALSE]
FullInstance == [made |-> TRUE, yolo_model |-> TRUE, ocr_reader |-> TRUE]

\* ml_processor.py before its import: loaded tells that the imports of its
\* head have run, deps_missing is _ML_DEPS_MISSING, model_file tells whether
\* LP-detection.pt exists, instance is cls._instance, outcome and returned
\* are how the last call of MLProcessor() ended and what it returned, used
\* is how the last use of the returned object ended.
NoProcessor ==
    [loaded |-> FALSE, deps_missing |-> FALSE, model_file |-> TRUE,
     instance |-> NoInstance, outcome |-> "not called",
     returned |-> NoInstance, calls |-> 0, used |-> "not used"]

\* No function of student_db has been called.
NoCall ==
    [op |-> "none", student_id |-> "", plate |-> "", ok |-> FALSE,
     failed |-> FALSE, match |-> "NULL"]

\* Images put into the watched folder.
Images == {"a.jpg", "b.jpg"}

\* process_folder has not been called and the folder is empty.  placed are
\* the images put into the folder so far, scanned those the scan in progress
\* has handled; runs, lines and copies count, for each image, the runs of the
\* pipeline on it, its lines in license_plate_results.txt and its copies in
\* need_verification.
NoWatch ==
    [started |-> FALSE, move_processed |-> TRUE, placed |-> {}, folder |-> {},
     processed |-> {}, failed |-> {}, scanned |-> {},
     runs |-> [i \in Images |-> 0], lines |-> [i \in Images |-> 0],
     copies |-> [i \in Images |-> 0]]

InitUnits ==
    reader = NoReader /\ mlp = NoProcessor /\ db = NoCall /\ watch = NoWatch

InitCommon ==
    /\ now = 0
    /\ inbuf = << >>
    /\ pc = "poll"
    /\ frame = NoFrame
    /\ previous_distance = NONE
    /\ wakeAt = 0
    /\ snapshot = NoSnapshot
    /\ photos = {}
    /\ flagged = {}
    /\ ledger = << >>
    /\ roster = InitialRoster
    /\ attempt = NoAttempt
    /\ cooldownUntil = NONE
    /\ inflight = 0
    /\ disp = "NONE"
    /\ calls = {}
    /\ before = [ledger |-> 0, photos |-> {}, flagged |-> {}]
    /\ fault = FALSE
    /\ fired = << >>
    /\ sent = << >>
    /\ data = NoData
    /\ seen = LoadResult(NoSnapshot)
    /\ sys = Running
    /\ readtext = NoSpans
    /\ plate_read = NoRead
    /\ InitUnits

Init == InitCommon /\ script = << >> /\ pending = << >>

(***************************************************************************)
(* The environment: time passes, the board sends lines.                    *)
(***************************************************************************)
\* The scripted feed: the distances 60, 60, 8, 8, 8, 60, 8, one line a second.
DebounceFeed == << 1, 1, 2, 2, 2, 1, 2 >>

\* The arrival time of the next scripted line: line k arrives at second k - 1.
NextArrival == Len(DebounceFeed) - Len(script)

\* A second passes.  The idle loop polls the port every 0.05 s and the sleep
\* returns when it is due, so a waiting line is read and a due sleep ends
\* within the second, and so does the write of the snapshot of a line that
\* was read; the steps of a cycle take any time.
Tick ==
    /\ now < MaxTime
    /\ script = << >> \/ now < NextArrival
    /\ ~(pc = "poll" /\ inbuf # << >>)
    /\ ~(pc = "sleep" /\ now >= wakeAt)
    /\ pc # "publish"
    /\ now' = now + 1
    /\ UNCHANGED << side, probe, units, sys, inbuf, script, loop, store, obs >>

\* A line arrives and waits in the input buffer of the port.
Arrive ==
    /\ Len(inbuf) < MaxBuf
    /\ \E l \in FeedLines : inbuf' = Append(inbuf, [line |-> l, seq |-> 0])
    /\ UNCHANGED << side, probe, units, sys, now, script, loop, store, obs >>

\* The next line of the scripted feed arrives; the few lines of the feed
\* all fit the input buffer of the port.
ArriveScripted ==
    /\ script # << >>
    /\ now = NextArrival
    /\ script' = Tail(script)
    /\ inbuf' = Append(inbuf, [line |-> Head(script), seq |-> NextArrival + 1])
    /\ UNCHANGED << side, probe, units, sys, now, loop, store, obs >>


(***************************************************************************)
(* The loop of main().                                                     *)
(***************************************************************************)
\* save_latest_sensor_data(temp, battery, distance_value)
SensorData(t, b, d) ==
    [temperature |-> IF t # TEMP_SENTINEL THEN t ELSE NONE,
     battery |-> IF b # DISTANCE_SENTINEL THEN b ELSE NONE,
     distance |-> d,
     last_update |-> now]

\* Mutant: the cycle runs beside the loop, which goes on reading lines.
LoopReadyAsync == pc \in {"poll", "detect", "ocr", "verify"} /\ inbuf # << >>

\* The loop is at "if ser.in_waiting > 0" with a line to read: the cycle is
\* called from the loop, which reads no line before the cycle has returned.
LoopReady == pc = "poll" /\ inbuf # << >>

\* Mutant: the trigger of SerialReader._run, a drop to half the previous
\* distance or less.
TriggersOnDrop(d) == previous_distance # NONE /\ 2 * d <= previous_distance

\* if (distance_value < DISTANCE_THRESHOLD)
Triggers(d) == d < DISTANCE_THRESHOLD

\* One pass of the loop over a waiting line, up to the trigger decision.
ReadLine ==
    /\ LoopReady
    /\ inbuf' = Tail(inbuf)
    /\ LET line == Strip(LineText[Head(inbuf).line])
           p == ParseSerialLine(line)
       IN  IF ~StartsWith(line, DistancePrefix) \/ ~p.ok
           THEN UNCHANGED << loop, store, obs >>
           ELSE /\ snapshot' = SensorData(p.temp, p.battery, p.distance)
                /\ frame' = [distance |-> p.distance, temp |-> p.temp,
                             battery |-> p.battery]
                /\ IF Triggers(p.distance)
                   THEN /\ pc' = "capture"
                        /\ attempt' = NoAttempt
                        /\ cooldownUntil' = now + RETRIGGER_SLEEP
                        /\ inflight' = inflight + 1
                        /\ disp' = "NONE"
                        /\ calls' = {}
                        /\ before' = [ledger |-> Len(ledger), photos |-> photos,
                                      flagged |-> flagged]
                        /\ fault' = FALSE
                        /\ fired' = IF Head(inbuf).seq # 0
                                    THEN Append(fired, Head(inbuf).seq)
                                    ELSE fired
                        /\ UNCHANGED previous_distance
                   ELSE /\ previous_distance' = p.distance
                        /\ UNCHANGED << pc, attempt, obs >>
                /\ UNCHANGED << wakeAt, photos, flagged, ledger, roster >>
    /\ UNCHANGED << side, probe, units, sys, now, script >>

\* Mutant: no time.sleep(4) after a cycle, as in SerialReader._run, which
\* goes back to reading as soon as _take_photo has returned.
EndCycleNoSleep(d) ==
    /\ pc' = "sleep"
    /\ wakeAt' = now
    /\ inflight' = inflight - 1
    /\ disp' = d
    /\ UNCHANGED sys

\* The cycle has ended and the loop goes on: time.sleep(4), then
\* previous_distance = distance_value.
EndCycle(d) ==
    /\ pc' = "sleep"
    /\ wakeAt' = now + RETRIGGER_SLEEP
    /\ inflight' = inflight - 1
    /\ disp' = d
    /\ UNCHANGED sys

\* The finally of main(): picam.stop(), whose exception is passed over, then
\* ser.close(); e is what the except clause before it reported.
Finally(e) ==
    \E stopOk \in BOOLEAN :
       sys' = [picam |-> IF stopOk THEN "stopped" ELSE "stop_failed",
               ser |-> "closed", diag |-> e]

\* An exception leaves the while loop: "Fatal error", picam.stop(), ser.close().
FatalError ==
    /\ pc' = "stopped"
    /\ Finally("Fatal error")
    /\ inflight' = inflight - 1
    /\ fault' = TRUE
    /\ UNCHANGED << wakeAt, disp >>

\* Mutant: the "continue" after a failed capture is missing.
CapturePhotoNoContinue ==
    /\ pc = "capture"
    /\ \/ /\ photos' = photos \cup {now}
          /\ attempt' = [attempt EXCEPT !.photo_path = now]
          /\ pc' = "detect"
          /\ UNCHANGED << previous_distance, inflight, disp >>
       \/ /\ previous_distance' = frame.distance
          /\ pc' = "detect"
          /\ inflight' = inflight
          /\ disp' = "CAPTURE_FAILED"
          /\ UNCHANGED << photos, attempt >>
    /\ UNCHANGED << side, probe, units, sys, env, frame, wakeAt, snapshot, flagged, ledger, roster,
                    cooldownUntil, calls, before, fault, fired >>

\* capture_photo() and "if not photo_path: ... continue"
CapturePhoto ==
    /\ pc = "capture"
    /\ \/ /\ photos' = photos \cup {now}
          /\ attempt' = [attempt EXCEPT !.photo_path = now]
          /\ pc' = "detect"
          /\ UNCHANGED << previous_distance, inflight, disp >>
       \/ /\ previous_distance' = frame.distance
          /\ pc' = "poll"
          /\ inflight' = inflight - 1
          /\ disp' = "CAPTURE_FAILED"
          /\ UNCHANGED << photos, attempt >>
    /\ UNCHANGED << side, probe, units, sys, env, frame, wakeAt, snapshot, flagged, ledger, roster,
                    cooldownUntil, calls, before, fault, fired >>

\* Mutant: the "if cropped is not None" test is missing, OCR runs on no crop.
DetectAlwaysOcr ==
    /\ pc = "detect"
    /\ calls' = calls \cup {"detect"}
    /\ \/ \E c \in YoloConfs :
             /\ attempt' = [attempt EXCEPT !.cropped = TRUE, !.yolo_conf = c]
             /\ pc' = "ocr"
       \/ /\ attempt' = [attempt EXCEPT !.cropped = FALSE, !.yolo_conf = 0]
          /\ pc' = "ocr"
    /\ UNCHANGED << side, probe, units, sys, env, frame, previous_distance, wakeAt, store,
                    cooldownUntil, inflight, disp, before, fault, fired >>

\* detect_and_crop_license_plate(photo_path): a crop and its confidence, or
\* (None, 0.0) for no box, an unreadable image or an exception.
Detect ==
    /\ pc = "detect"
    /\ calls' = calls \cup {"detect"}
    /\ \/ \E c \in YoloConfs :
             /\ attempt' = [attempt EXCEPT !.cropped = TRUE, !.yolo_conf = c]
             /\ pc' = "ocr"
       \/ /\ attempt' = [attempt EXCEPT !.cropped = FALSE, !.yolo_conf = 0]
          /\ pc' = "noplate"
    /\ UNCHANGED << side, probe, units, sys, env, frame, previous_distance, wakeAt, store,
                    cooldownUntil, inflight, disp, before, fault, fired >>

\* Mutant: the "if plate_text" test is missing, an empty text is verified.
OcrAlwaysVerify ==
    /\ pc = "ocr"
    /\ calls' = calls \cup {"ocr"}
    /\ \E r \in OcrResults :
       \E confidence \in OverallConfidence(attempt.yolo_conf, r.conf) :
          /\ attempt' = [attempt EXCEPT
                            !.plate_text = r.text,
                            !.ocr_conf = r.conf,
                            !.confidence = confidence]
          /\ pc' = "verify"
    /\ UNCHANGED << side, probe, units, sys, env, frame, previous_distance, wakeAt, store,
                    cooldownUntil, inflight, disp, before, fault, fired >>

\* ocr_license_plate(cropped) and the overall confidence.
Ocr ==
    /\ pc = "ocr"
    /\ calls' = calls \cup {"ocr"}
    /\ \E r \in OcrResults :
       \E confidence \in OverallConfidence(attempt.yolo_conf, r.conf) :
          /\ attempt' = [attempt EXCEPT
                            !.plate_text = r.text,
                            !.ocr_conf = r.conf,
                            !.confidence = confidence]
          /\ pc' = IF r.text # "" THEN "verify" ELSE "notext"
    /\ UNCHANGED << side, probe, units, sys, env, frame, previous_distance, wakeAt, store,
                    cooldownUntil, inflight, disp, before, fault, fired >>

\* lookup_by_license_plate(license_plate): the row, or none when there is no
\* such row or the query raised.
LookupByLicensePlate(license_plate, queryOk) ==
    IF queryOk THEN { s \in roster : s.license_plate = license_plate } ELSE {}

\* Mutant: the row of the attempt replaces the rows of verification_log.
VerifyScannedPlateRewrite ==
    /\ pc = "verify"
    /\ calls' = calls \cup {"lookup"}
    /\ \E queryOk \in BOOLEAN, insertOk \in BOOLEAN :
          LET normalized_plate == NormalizePlate(attempt.plate_text)
              student == LookupByLicensePlate(normalized_plate, queryOk)
              row == [scanned_plate |-> normalized_plate,
                      student_id |-> IF student # {}
                                     THEN (CHOOSE s \in student : TRUE).student_id
                                     ELSE "NULL",
                      match_found |-> student # {},
                      confidence |-> attempt.confidence]
          IN  /\ attempt' = [attempt EXCEPT !.match_found = student # {}]
              /\ ledger' = IF insertOk THEN << row >> ELSE ledger
              /\ fault' = (fault \/ ~insertOk)
              /\ pc' = IF student # {} THEN "authorized" ELSE "unauthorized"
    /\ UNCHANGED << side, probe, units, sys, env, frame, previous_distance, wakeAt, snapshot, photos,
                    flagged, roster, cooldownUntil, inflight, disp, before, fired >>

\* verify_scanned_plate(plate_text, confidence): the lookup, then one row of
\* verification_log unless the insert raises, which is logged.
VerifyScannedPlate ==
    /\ pc = "verify"
    /\ calls' = calls \cup {"lookup"}
    /\ \E queryOk \in BOOLEAN, insertOk \in BOOLEAN :
          LET normalized_plate == NormalizePlate(attempt.plate_text)
              student == LookupByLicensePlate(normalized_plate, queryOk)
              row == [scanned_plate |-> normalized_plate,
                      student_id |-> IF student # {}
                                     THEN (CHOOSE s \in student : TRUE).student_id
                                     ELSE "NULL",
                      match_found |-> student # {},
                      confidence |-> attempt.confidence]
          IN  /\ attempt' = [attempt EXCEPT !.match_found = student # {}]
              /\ ledger' = IF insertOk THEN Append(ledger, row) ELSE ledger
              /\ fault' = (fault \/ ~insertOk)
              /\ pc' = IF student # {} THEN "authorized" ELSE "unauthorized"
    /\ UNCHANGED << side, probe, units, sys, env, frame, previous_distance, wakeAt, snapshot, photos,
                    flagged, roster, cooldownUntil, inflight, disp, before, fired >>


\* os.rename(photo_path, FLAGGED_DIR / Path(photo_path).name)
MoveToFlagged(stem, dir) == dir \cup {FullName(stem)}

\* Mutant: the authorized photo is kept in PHOTO_DIR.
FileAuthorizedKeep ==
    /\ pc = "authorized"
    /\ EndCycle("AUTHORIZED")
    /\ UNCHANGED << side, probe, units, env, frame, previous_distance, attempt, snapshot, photos,
                    flagged, ledger, roster, cooldownUntil, calls, before,
                    fault, fired >>

\* AUTHORIZED: os.remove(photo_path)
FileAuthorized ==
    /\ pc = "authorized"
    /\ \/ /\ photos' = photos \ {attempt.photo_path}
          /\ EndCycle("AUTHORIZED")
          /\ UNCHANGED fault
       \/ /\ FatalError
          /\ UNCHANGED photos
    /\ UNCHANGED << side, probe, units, env, frame, previous_distance, attempt, snapshot, flagged,
                    ledger, roster, cooldownUntil, calls, before, fired >>

\* Mutant: the unauthorized photo is removed like an authorized one.
FileUnauthorizedRemove ==
    /\ pc = "unauthorized"
    /\ photos' = photos \ {attempt.photo_path}
    /\ EndCycle("UNAUTHORIZED")
    /\ UNCHANGED << side, probe, units, env, frame, previous_distance, attempt, snapshot,
                    flagged, ledger, roster, cooldownUntil, calls, before,
                    fault, fired >>

\* UNAUTHORIZED -> FLAGGED: os.rename(photo_path, flagged)
FileUnauthorized ==
    /\ pc = "unauthorized"
    /\ \/ /\ photos' = photos \ {attempt.photo_path}
          /\ flagged' = MoveToFlagged(attempt.photo_path, flagged)
          /\ EndCycle("UNAUTHORIZED")
          /\ UNCHANGED fault
       \/ /\ FatalError
          /\ UNCHANGED << photos, flagged >>
    /\ UNCHANGED << side, probe, units, env, frame, previous_distance, attempt, snapshot,
                    ledger, roster, cooldownUntil, calls, before, fired >>

\* No plate detected -> FLAGGED: os.rename(photo_path, flagged)
FileNoPlate ==
    /\ pc = "noplate"
    /\ \/ /\ photos' = photos \ {attempt.photo_path}
          /\ flagged' = MoveToFlagged(attempt.photo_path, flagged)
          /\ EndCycle("FLAGGED_NO_PLATE")
          /\ UNCHANGED fault
       \/ /\ FatalError
          /\ UNCHANGED << photos, flagged >>
    /\ UNCHANGED << side, probe, units, env, frame, previous_distance, attempt, snapshot,
                    ledger, roster, cooldownUntil, calls, before, fired >>

\* What cv2.imwrite can do: write the file, return False without writing
\* (its result is not looked at), or raise.
ImwriteOutcomes == {"written", "false", "raise"}

\* No text recognized -> FLAGGED: try cv2.imwrite(flagged, cropped) and
\* os.remove(photo_path); on an exception of either, os.rename of the full
\* photo, whose own exception leaves the loop.
FileNoText ==
    /\ pc = "notext"
    /\ \E imwrite \in ImwriteOutcomes, removeOk \in BOOLEAN, renameOk \in BOOLEAN :
          LET stem == attempt.photo_path
              saved == IF imwrite = "written"
                       THEN flagged \cup {CroppedName(stem)}
                       ELSE flagged
          IN  IF imwrite # "raise" /\ removeOk
              THEN /\ flagged' = saved
                   /\ photos' = photos \ {stem}
                   /\ fault' = (fault \/ imwrite = "false")
                   /\ EndCycle("FLAGGED_NO_TEXT")
              ELSE IF renameOk
              THEN /\ flagged' = MoveToFlagged(stem, saved)
                   /\ photos' = photos \ {stem}
                   /\ fault' = TRUE
                   /\ EndCycle("FLAGGED_NO_TEXT")
              ELSE /\ flagged' = saved
                   /\ FatalError
                   /\ UNCHANGED photos
    /\ UNCHANGED << side, probe, units, env, frame, previous_distance, attempt, snapshot,
                    ledger, roster, cooldownUntil, calls, before, fired >>

\* Mutant: previous_distance is not assigned after the sleep of a cycle.
WakeKeepsPrevious ==
    /\ pc = "sleep"
    /\ now >= wakeAt
    /\ pc' = "poll"
    /\ UNCHANGED << side, probe, units, sys, env, frame, previous_distance, wakeAt, attempt,
                    store, obs >>

\* time.sleep(4) returns; previous_distance = distance_value.
Wake ==
    /\ pc = "sleep"
    /\ now >= wakeAt
    /\ pc' = "poll"
    /\ previous_distance' = frame.distance
    /\ UNCHANGED << side, probe, units, sys, env, frame, wakeAt, attempt, store, obs >>

Cycle ==
    \/ CapturePhoto
    \/ Detect
    \/ Ocr
    \/ VerifyScannedPlate
    \/ FileAuthorized
    \/ FileUnauthorized
    \/ FileNoPlate
    \/ FileNoText
    \/ Wake

Next == Tick \/ Arrive \/ ReadLine \/ Cycle

Spec == Init /\ [][Next]_vars

\* The debounce scenario: the scripted feed, one line a second.
InitDebounce == InitCommon /\ script = DebounceFeed /\ pending = << >>

NextDebounce == Tick \/ ArriveScripted \/ ReadLine \/ Cycle

SpecDebounce == InitDebounce /\ [][NextDebounce]_vars

(***************************************************************************)
(* The parser, line by line: a probing feed hands the loop one line after  *)
(* the other, each when the loop has dealt with the one before.            *)
(***************************************************************************)
\* Every sequence of 1 .. n lines of S.
Scripts(S, n) == UNION { [1 .. k -> S] : k \in 1 .. n }

\* The next line of the probing feed reaches the idle loop.
ArriveNext ==
    /\ pending # << >>
    /\ inbuf = << >>
    /\ pc = "poll"
    /\ inbuf' = << [line |-> Head(pending), seq |-> 0] >>
    /\ pending' = Tail(pending)
    /\ sent' = Append(sent, Head(pending))
    /\ UNCHANGED << now, script, loop, store, obs, data, seen, probe, units, sys >>

\* The lines the parser is probed with.
ParseLines == Lines

InitParse ==
    InitCommon /\ script = << >> /\ pending \in Scripts(ParseLines, FeedLen)

NextParse == ArriveNext \/ ReadLine

SpecParse == InitParse /\ [][NextParse]_vars

(***************************************************************************)
(* The pass of the loop at the grain of the file operations of             *)
(* save_latest_sensor_data, beside load_sensor_data of the dashboard.      *)
(***************************************************************************)
\* Lines of the feed of the publisher: far, near, without a distance.
PublishFeed == {1, 3, 4}

\* The pass over a waiting line up to open(SENSOR_JSON, "w"): the line is
\* read and parsed, the dict is built, the file is opened and so truncated,
\* or open raises and the file is left as it was.
OpenSnapshot ==
    /\ LoopReady
    /\ inbuf' = Tail(inbuf)
    /\ LET line == Strip(LineText[Head(inbuf).line])
           p == ParseSerialLine(line)
       IN  IF ~StartsWith(line, DistancePrefix) \/ ~p.ok
           THEN UNCHANGED << loop, store, data >>
           ELSE /\ frame' = [distance |-> p.distance, temp |-> p.temp,
                             battery |-> p.battery]
                /\ pc' = "publish"
                /\ \E opened \in BOOLEAN :
                      /\ data' = [dict |-> SensorData(p.temp, p.battery,
                                                      p.distance),
                                  open |-> opened, failed |-> ~opened]
                      /\ snapshot' = IF opened THEN TruncatedFile ELSE snapshot
                /\ UNCHANGED << previous_distance, wakeAt, attempt, photos,
                                flagged, ledger, roster >>
    /\ UNCHANGED << now, script, obs, pending, sent, seen, probe, units, sys >>

\* Mutant: a frame whose write failed is not looked at by the trigger.
DumpSnapshotFailureSkipsTrigger ==
    /\ pc = "publish"
    /\ \E dumped \in BOOLEAN :
          /\ snapshot' = IF data.open /\ dumped THEN data.dict ELSE snapshot
          /\ data' = [data EXCEPT !.open = FALSE,
                                  !.failed = ~(data.open /\ dumped)]
          /\ IF Triggers(frame.distance) /\ data.open /\ dumped
             THEN /\ pc' = "capture"
                  /\ attempt' = NoAttempt
                  /\ cooldownUntil' = now + RETRIGGER_SLEEP
                  /\ inflight' = inflight + 1
                  /\ disp' = "NONE"
                  /\ calls' = {}
                  /\ before' = [ledger |-> Len(ledger), photos |-> photos,
                                flagged |-> flagged]
                  /\ fault' = FALSE
                  /\ UNCHANGED << previous_distance, fired >>
             ELSE /\ previous_distance' = frame.distance
                  /\ pc' = "poll"
                  /\ UNCHANGED << attempt, obs >>
    /\ UNCHANGED << env, frame, wakeAt, photos, flagged, ledger, roster,
                    pending, sent, seen, probe, units, sys >>

\* Mutant: a frame that triggers a capture is not written.
DumpSnapshotUnlessTriggering ==
    /\ pc = "publish"
    /\ \E dumped \in BOOLEAN :
          /\ snapshot' = IF data.open /\ dumped /\ ~Triggers(frame.distance)
                         THEN data.dict ELSE snapshot
          /\ data' = [data EXCEPT !.open = FALSE,
                                  !.failed = ~(data.open /\ dumped)]
    /\ IF Triggers(frame.distance)
       THEN /\ pc' = "capture"
            /\ attempt' = NoAttempt
            /\ cooldownUntil' = now + RETRIGGER_SLEEP
            /\ inflight' = inflight + 1
            /\ disp' = "NONE"
            /\ calls' = {}
            /\ before' = [ledger |-> Len(ledger), photos |-> photos,
                          flagged |-> flagged]
            /\ fault' = FALSE
            /\ UNCHANGED << previous_distance, fired >>
       ELSE /\ previous_distance' = frame.distance
            /\ pc' = "poll"
            /\ UNCHANGED << attempt, obs >>
    /\ UNCHANGED << env, frame, wakeAt, photos, flagged, ledger, roster,
                    pending, sent, seen, probe, units, sys >>

\* The rest of the pass: json.dump(data, f) and the close of the file, or
\* an exception that is logged, then the trigger decision.
DumpSnapshot ==
    /\ pc = "publish"
    /\ \E dumped \in BOOLEAN :
          /\ snapshot' = IF data.open /\ dumped THEN data.dict ELSE snapshot
          /\ data' = [data EXCEPT !.open = FALSE,
                                  !.failed = ~(data.open /\ dumped)]
    /\ IF Triggers(frame.distance)
       THEN /\ pc' = "capture"
            /\ attempt' = NoAttempt
            /\ cooldownUntil' = now + RETRIGGER_SLEEP
            /\ inflight' = inflight + 1
            /\ disp' = "NONE"
            /\ calls' = {}
            /\ before' = [ledger |-> Len(ledger), photos |-> photos,
                          flagged |-> flagged]
            /\ fault' = FALSE
            /\ UNCHANGED << previous_distance, fired >>
       ELSE /\ previous_distance' = frame.distance
            /\ pc' = "poll"
            /\ UNCHANGED << attempt, obs >>
    /\ UNCHANGED << env, frame, wakeAt, photos, flagged, ledger, roster,
                    pending, sent, seen, probe, units, sys >>

\* load_sensor_data() of a dashboard page, run at any moment.
LoadSensorData ==
    /\ seen' = LoadResult(snapshot)
    /\ UNCHANGED << env, loop, store, obs, pending, sent, data, probe, units, sys >>

InitPublish ==
    /\ InitCommon
    /\ script = << >>
    /\ pending \in Scripts(PublishFeed, FeedLen)

NextPublish == Tick \/ ArriveNext \/ OpenSnapshot \/ DumpSnapshot \/ Cycle

SpecPublish == InitPublish /\ [][NextPublish]_vars

\* Lines of the feed beside the dashboard: far frames, one of them with a
\* field that is not available, and a line without a distance.
DashboardFeed == {1, 4, 8}

InitDashboard ==
    /\ InitCommon
    /\ script = << >>
    /\ pending \in Scripts(DashboardFeed, FeedLen)

NextDashboard ==
    Tick \/ ArriveNext \/ OpenSnapshot \/ DumpSnapshot \/ LoadSensorData

SpecDashboard == InitDashboard /\ [][NextDashboard]_vars

(***************************************************************************)
(* The recognition steps of a cycle alone, over a range of confidences.    *)
(***************************************************************************)
\* Confidences of the best box around 0.9.
ProbeConfs == { 900 + d : d \in -ConfSpan .. ConfSpan }

\* A cycle whose capture at second 0 and whose detection have succeeded.
InitConfidence ==
    /\ now = 0
    /\ inbuf = << >>
    /\ script = << >>
    /\ pc = "ocr"
    /\ frame = [distance |-> 85, temp |-> TEMP_SENTINEL,
                battery |-> DISTANCE_SENTINEL]
    /\ previous_distance = NONE
    /\ wakeAt = 0
    /\ snapshot = SensorData(TEMP_SENTINEL, DISTANCE_SENTINEL, 85)
    /\ photos = {0}
    /\ flagged = {}
    /\ ledger = << >>
    /\ roster = InitialRoster
    /\ \E c \in ProbeConfs :
          attempt = [NoAttempt EXCEPT !.photo_path = 0, !.cropped = TRUE,
                                      !.yolo_conf = c]
    /\ cooldownUntil = RETRIGGER_SLEEP
    /\ inflight = 1
    /\ disp = "NONE"
    /\ calls = {"detect"}
    /\ before = [ledger |-> 0, photos |-> {}, flagged |-> {}]
    /\ fault = FALSE
    /\ fired = << >>
    /\ pending = << >>
    /\ sent = << 3 >>
    /\ data = [dict |-> SensorData(TEMP_SENTINEL, DISTANCE_SENTINEL, 85),
               open |-> FALSE, failed |-> FALSE]
    /\ seen = LoadResult(NoSnapshot)
    /\ sys = Running
    /\ readtext = NoSpans
    /\ plate_read = NoRead
    /\ InitUnits

NextConfidence == Ocr \/ VerifyScannedPlate

SpecConfidence == InitConfidence /\ [][NextConfidence]_vars

(***************************************************************************)
(* ocr_license_plate alone, over the spans of a probing run.               *)
(***************************************************************************)
Spans == [text : SpanTexts, conf : SpanConfs]

\* What readtext does: it returns up to SpanLen spans, or raises.
ReadtextOutcomes ==
    { [ok |-> TRUE, result |-> r] :
         r \in {<< >>} \cup UNION { [1 .. k -> Spans] : k \in 1 .. SpanLen } }
    \cup { [ok |-> FALSE, result |-> << >>] }

\* plate_text, ocr_conf = ocr_license_plate(cropped)
ReadPlate ==
    /\ ~plate_read.called
    /\ plate_read' = OcrLicensePlate(readtext)
    /\ UNCHANGED << env, loop, store, obs, side, readtext, units, sys >>

InitOcr ==
    /\ now = 0
    /\ inbuf = << >>
    /\ script = << >>
    /\ pc = "ocr"
    /\ frame = [distance |-> 85, temp |-> TEMP_SENTINEL,
                battery |-> DISTANCE_SENTINEL]
    /\ previous_distance = NONE
    /\ wakeAt = 0
    /\ snapshot = SensorData(TEMP_SENTINEL, DISTANCE_SENTINEL, 85)
    /\ photos = {0}
    /\ flagged = {}
    /\ ledger = << >>
    /\ roster = InitialRoster
    /\ attempt = [NoAttempt EXCEPT !.photo_path = 0, !.cropped = TRUE,
                                   !.yolo_conf = 900]
    /\ cooldownUntil = RETRIGGER_SLEEP
    /\ inflight = 1
    /\ disp = "NONE"
    /\ calls = {"detect"}
    /\ before = [ledger |-> 0, photos |-> {}, flagged |-> {}]
    /\ fault = FALSE
    /\ fired = << >>
    /\ pending = << >>
    /\ sent = << 3 >>
    /\ data = [dict |-> SensorData(TEMP_SENTINEL, DISTANCE_SENTINEL, 85),
               open |-> FALSE, failed |-> FALSE]
    /\ seen = LoadResult(NoSnapshot)
    /\ sys = Running
    /\ readtext \in ReadtextOutcomes
    /\ plate_read = NoRead
    /\ InitUnits

NextOcr == ReadPlate

SpecOcr == InitOcr /\ [][NextOcr]_vars

(***************************************************************************)
(* SerialReader of interface/serial_reader.py: start() and stop() called   *)
(* one after the other by one caller, and the threads running _run.        *)
(***************************************************************************)
\* threading.Thread.is_alive(): the thread has been started and _run has not
\* returned.
IsAlive(t) == reader.where[t] \in {"open", "loop", "photo"}

\* Mutant: start() without the is_alive test.
StartAlways ==
    /\ reader.caller = "idle"
    /\ reader.thread < MaxThreads
    /\ reader' = [reader EXCEPT !.stop_event = FALSE,
                                !.thread = reader.thread + 1,
                                !.where[reader.thread + 1] = "open",
                                !.wanted = TRUE]
    /\ UNCHANGED << env, loop, store, obs, side, probe, sys, mlp, db, watch >>

\* SerialReader.start(): nothing when self.thread is alive; otherwise the
\* event is cleared and a new thread is created and started.
Start ==
    /\ reader.caller = "idle"
    /\ IF reader.thread # 0 /\ IsAlive(reader.thread)
       THEN reader' = [reader EXCEPT !.wanted = TRUE]
       ELSE /\ reader.thread < MaxThreads
            /\ reader' = [reader EXCEPT !.stop_event = FALSE,
                                        !.thread = reader.thread + 1,
                                        !.where[reader.thread + 1] = "open",
                                        !.wanted = TRUE]
    /\ UNCHANGED << env, loop, store, obs, side, probe, sys, mlp, db, watch >>

\* SerialReader.stop() up to the join: the event is set, and the caller
\* waits for self.thread if there is one.
Stop ==
    /\ reader.caller = "idle"
    /\ reader' = [reader EXCEPT !.stop_event = TRUE,
                                !.wanted = FALSE,
                                !.caller = IF reader.thread # 0
                                           THEN "joining" ELSE "idle"]
    /\ UNCHANGED << env, loop, store, obs, side, probe, sys, mlp, db, watch >>

\* self.thread.join(timeout=2) returns: the thread has ended, or the two
\* seconds have passed while it is in _take_photo (readline has a timeout
\* of 1 s and the sleeps of the loop are shorter).
JoinReturns ==
    /\ reader.caller = "joining"
    /\ reader.where[reader.thread] \in {"done", "failed", "photo"}
    /\ reader' = [reader EXCEPT !.caller = "idle"]
    /\ UNCHANGED << env, loop, store, obs, side, probe, sys, mlp, db, watch >>

\* _run: self._open_serial(); _run returns when it raises.
OpenSerial(t) ==
    /\ reader.where[t] = "open"
    /\ \E opened \in BOOLEAN :
          reader' = [reader EXCEPT !.where[t] = IF opened THEN "loop" ELSE "failed"]
    /\ UNCHANGED << env, loop, store, obs, side, probe, sys, mlp, db, watch >>

\* One pass of "while not self._stop_event.is_set()": the loop is left when
\* the event is set; otherwise a line is read, and _take_photo is called
\* when the distance has dropped to half of the previous one.
ReaderPass(t) ==
    /\ reader.where[t] = "loop"
    /\ IF reader.stop_event
       THEN reader' = [reader EXCEPT !.where[t] = "done"]
       ELSE /\ reader.reads < MaxReads
            /\ \E drop \in BOOLEAN :
                  reader' = [reader EXCEPT !.reads = reader.reads + 1,
                                          !.where[t] = IF drop THEN "photo"
                                                       ELSE "loop"]
    /\ UNCHANGED << env, loop, store, obs, side, probe, sys, mlp, db, watch >>

\* _take_photo returns, after the camera and the ML pipeline have run.
TakePhoto(t) ==
    /\ reader.where[t] = "photo"
    /\ reader' = [reader EXCEPT !.where[t] = "loop"]
    /\ UNCHANGED << env, loop, store, obs, side, probe, sys, mlp, db, watch >>

NextReader ==
    \/ Start
    \/ Stop
    \/ JoinReturns
    \/ \E t \in Threads : OpenSerial(t) \/ ReaderPass(t) \/ TakePhoto(t)

SpecReader == Init /\ [][NextReader]_vars

(***************************************************************************)
(* MLProcessor of interface/ml_processor.py: the calls of MLProcessor(),   *)
(* the first of which is the one that makes the global processor.          *)
(***************************************************************************)
\* The head of ml_processor.py: cv2, ultralytics and easyocr are imported,
\* or _ML_DEPS_MISSING is set.
ImportDeps ==
    /\ ~mlp.loaded
    /\ \E missing \in BOOLEAN :
          mlp' = [mlp EXCEPT !.loaded = TRUE, !.deps_missing = missing]
    /\ UNCHANGED << env, loop, store, obs, side, probe, sys, reader, db, watch >>

\* How a call of MLProcessor() ends.
Raised(instance, e) ==
    [mlp EXCEPT !.instance = instance, !.outcome = e,
                !.returned = NoInstance, !.calls = mlp.calls + 1]

Returned(instance) ==
    [mlp EXCEPT !.instance = instance, !.outcome = "returned",
                !.returned = instance, !.calls = mlp.calls + 1]

\* MLProcessor.__new__: when cls._instance is None it is set to a new object,
\* then the dependencies and the model file are tested, YOLO(model_path) and
\* easyocr.Reader(['en']) are called, each of which may raise; then
\* cls._instance is returned.
New ==
    /\ mlp.loaded
    /\ mlp.calls < MaxCalls
    /\ IF ~mlp.instance.made
       THEN \E yoloOk \in BOOLEAN, ocrOk \in BOOLEAN :
               IF mlp.deps_missing
               THEN mlp' = Raised(BareInstance, "Missing ML dependencies")
               ELSE IF ~mlp.model_file
               THEN mlp' = Raised(BareInstance, "YOLO model not found")
               ELSE IF ~yoloOk
               THEN mlp' = Raised(BareInstance, "YOLO raised")
               ELSE IF ~ocrOk
               THEN mlp' = Raised([BareInstance EXCEPT !.yolo_model = TRUE],
                                  "Reader raised")
               ELSE mlp' = Returned(FullInstance)
       ELSE mlp' = Returned(mlp.instance)
    /\ UNCHANGED << env, loop, store, obs, side, probe, sys, reader, db, watch >>

\* process_image_file called on the object the last call returned: nothing
\* is done with an image cv2.imread cannot load; self.yolo_model is used on
\* every other image, and self.ocr_reader when a plate is found, inside a
\* try whose except logs "OCR error".
ProcessImageFile ==
    /\ mlp.outcome = "returned"
    /\ \E loads \in BOOLEAN, plate \in BOOLEAN :
          mlp' = [mlp EXCEPT !.used =
                     IF ~loads THEN "not loaded"
                     ELSE IF ~mlp.returned.yolo_model THEN "AttributeError"
                     ELSE IF plate /\ ~mlp.returned.ocr_reader THEN "OCR error"
                     ELSE "processed"]
    /\ UNCHANGED << env, loop, store, obs, side, probe, sys, reader, db, watch >>

\* LP-detection.pt is put into the interface folder, or taken away.
ModelFileChanges ==
    /\ mlp' = [mlp EXCEPT !.model_file = ~mlp.model_file]
    /\ UNCHANGED << env, loop, store, obs, side, probe, sys, reader, db, watch >>

InitProcessor ==
    /\ InitCommon
    /\ script = << >>
    /\ pending = << >>

NextProcessor == ImportDeps \/ New \/ ProcessImageFile \/ ModelFileChanges

SpecProcessor == InitProcessor /\ [][NextProcessor]_vars

(***************************************************************************)
(* The roster functions of interface/student_db.py, called from the pages  *)
(* of the dashboard: add_student, delete_student, verify_scanned_plate.    *)
(***************************************************************************)
\* Student ids and plates the pages are given.
StudentIds == {"S1", "S2"}
PlateTexts == {"ABC123", "abc123", " ABC123 ", "ZZZ999"}

\* Mutant: the students table without UNIQUE on license_plate.
AddStudentPlateNotUnique(student_id, license_plate) ==
    /\ \E dbOk \in BOOLEAN :
          LET taken == \E s \in roster : s.student_id = student_id
              added == dbOk /\ ~taken
          IN  /\ roster' = IF added
                           THEN roster \cup {[student_id |-> student_id,
                                              license_plate |-> license_plate]}
                           ELSE roster
              /\ db' = [op |-> "add", student_id |-> student_id,
                        plate |-> license_plate, ok |-> added,
                        failed |-> ~dbOk, match |-> "NULL"]
    /\ UNCHANGED << env, loop, obs, side, probe, sys, reader, mlp, watch,
                    snapshot, photos, flagged, ledger >>

\* add_student(student_id, name, vehicle_color, license_plate): the INSERT
\* raises IntegrityError when student_id or license_plate is in the table
\* (UNIQUE, compared as the texts they are), and any exception gives False.
AddStudent(student_id, license_plate) ==
    /\ \E dbOk \in BOOLEAN :
          LET taken == \E s \in roster : \/ s.student_id = student_id
                                        \/ s.license_plate = license_plate
              added == dbOk /\ ~taken
          IN  /\ roster' = IF added
                           THEN roster \cup {[student_id |-> student_id,
                                              license_plate |-> license_plate]}
                           ELSE roster
              /\ db' = [op |-> "add", student_id |-> student_id,
                        plate |-> license_plate, ok |-> added,
                        failed |-> ~dbOk, match |-> "NULL"]
    /\ UNCHANGED << env, loop, obs, side, probe, sys, reader, mlp, watch,
                    snapshot, photos, flagged, ledger >>

\* delete_student(student_id): True unless the DELETE raises.
DeleteStudent(student_id) ==
    /\ \E dbOk \in BOOLEAN :
          /\ roster' = IF dbOk
                       THEN { s \in roster : s.student_id # student_id }
                       ELSE roster
          /\ db' = [op |-> "delete", student_id |-> student_id, plate |-> "",
                    ok |-> dbOk, failed |-> ~dbOk, match |-> "NULL"]
    /\ UNCHANGED << env, loop, obs, side, probe, sys, reader, mlp, watch,
                    snapshot, photos, flagged, ledger >>

\* verify_scanned_plate(scanned_plate) called from a page: the lookup of
\* scanned_plate.strip().upper(), then one row of verification_log unless
\* the insert raises.
VerifyPlate(scanned_plate) ==
    /\ Len(ledger) < MaxRows
    /\ \E queryOk \in BOOLEAN, insertOk \in BOOLEAN :
          LET normalized_plate == NormalizePlate(scanned_plate)
              student == LookupByLicensePlate(normalized_plate, queryOk)
              found == IF student # {}
                       THEN (CHOOSE s \in student : TRUE).student_id
                       ELSE "NULL"
              row == [scanned_plate |-> normalized_plate,
                      student_id |-> found,
                      match_found |-> student # {},
                      confidence |-> 0]
          IN  /\ ledger' = IF insertOk THEN Append(ledger, row) ELSE ledger
              /\ db' = [op |-> "verify", student_id |-> "",
                        plate |-> scanned_plate, ok |-> student # {},
                        failed |-> ~queryOk, match |-> found]
    /\ UNCHANGED << env, loop, obs, side, probe, sys, reader, mlp, watch,
                    snapshot, photos, flagged, roster >>

NextRoster ==
    \/ \E student_id \in StudentIds, license_plate \in PlateTexts :
          AddStudent(student_id, license_plate)
    \/ \E student_id \in StudentIds : DeleteStudent(student_id)
    \/ \E scanned_plate \in PlateTexts : VerifyPlate(scanned_plate)

SpecRoster == Init /\ [][NextRoster]_vars

(***************************************************************************)
(* process_folder of interface/process_folder.py in watch mode, with the   *)
(* part of MLProcessor.process_image_file that touches the files.          *)
(***************************************************************************)
\* process_folder(folder, mode='watch', move_processed=...) up to its loop.
ProcessFolder ==
    /\ ~watch.started
    /\ \E move_processed \in BOOLEAN :
          watch' = [watch EXCEPT !.started = TRUE,
                                 !.move_processed = move_processed]
    /\ UNCHANGED << env, loop, store, obs, side, probe, sys, reader, mlp, db >>

\* An image is put into the watched folder.
PlaceImage(i) ==
    /\ i \notin watch.placed
    /\ watch' = [watch EXCEPT !.placed = watch.placed \cup {i},
                              !.folder = watch.folder \cup {i}]
    /\ UNCHANGED << env, loop, store, obs, side, probe, sys, reader, mlp, db >>

\* One pass of the for loop of scan_and_process, for the image p: process_image_file returns
\* None for an image cv2.imread cannot load, and result.get then raises;
\* otherwise it writes its log line, copies a low-confidence capture to
\* need_verification and removes a high-confidence one; then the original,
\* if it is still there and move_processed is set, is moved to processed/,
\* and after an exception to failed/.  Every file operation may fail and
\* is then logged or passed over.
ScanImage(i) ==
    /\ watch.started
    /\ i \in watch.folder
    /\ i \notin watch.scanned
    /\ watch.runs[i] < MaxRuns
    /\ \E loads \in BOOLEAN, high \in BOOLEAN, logOk \in BOOLEAN,
          copyOk \in BOOLEAN, removeOk \in BOOLEAN, moveOk \in BOOLEAN :
          IF ~loads
          THEN watch' = [watch EXCEPT
                   !.scanned = watch.scanned \cup {i},
                   !.folder = IF moveOk THEN watch.folder \ {i} ELSE watch.folder,
                   !.failed = IF moveOk THEN watch.failed \cup {i} ELSE watch.failed]
          ELSE LET removed == high /\ removeOk
                   moved == watch.move_processed /\ ~removed /\ moveOk
               IN  watch' = [watch EXCEPT
                       !.scanned = watch.scanned \cup {i},
                       !.runs[i] = watch.runs[i] + 1,
                       !.lines[i] = IF logOk THEN watch.lines[i] + 1
                                    ELSE watch.lines[i],
                       !.copies[i] = IF ~high /\ copyOk THEN watch.copies[i] + 1
                                     ELSE watch.copies[i],
                       !.folder = IF removed \/ moved THEN watch.folder \ {i}
                                  ELSE watch.folder,
                       !.processed = IF moved THEN watch.processed \cup {i}
                                     ELSE watch.processed]
    /\ UNCHANGED << env, loop, store, obs, side, probe, sys, reader, mlp, db >>

\* The scan is over: time.sleep(interval), and the next scan starts.
EndScan ==
    /\ watch.started
    /\ watch.scanned # {}
    /\ \A i \in watch.folder : i \in watch.scanned \/ watch.runs[i] = MaxRuns
    /\ watch' = [watch EXCEPT !.scanned = {}]
    /\ UNCHANGED << env, loop, store, obs, side, probe, sys, reader, mlp, db >>

NextFolder ==
    \/ ProcessFolder
    \/ \E i \in Images : PlaceImage(i) \/ ScanImage(i)
    \/ EndScan

SpecFolder == Init /\ [][NextFolder]_vars

(***************************************************************************)
(* The ways out of the loop: the port fails, the operator interrupts.      *)
(***************************************************************************)
\* Lines of the feed of a run that is stopped: far and near.
StopFeed == {1, 3}

\* Mutant: the handler of SerialReader._run, which logs the error, sleeps
\* and reads again.
TransportLostRetry ==
    /\ pc = "poll"
    /\ sys' = [sys EXCEPT !.diag = "Fatal error"]
    /\ UNCHANGED << env, loop, store, obs, side, probe, units >>

\* ser.in_waiting or ser.readline() raises serial.SerialException because the
\* port is gone: "except Exception" logs "Fatal error", then the finally.
TransportLost ==
    /\ pc = "poll"
    /\ pc' = "stopped"
    /\ Finally("Fatal error")
    /\ UNCHANGED << env, frame, previous_distance, wakeAt, attempt, store, obs,
                    side, probe, units >>

\* KeyboardInterrupt is raised in the main thread wherever it stands, in the
\* middle of a call too: "Shutting down...", then the finally.  A capture
\* that was being written may have left its file, and so may the crop of
\* cv2.imwrite whose os.remove has not run; a row that was not committed is
\* not in verification_log.
KeyboardInterrupt ==
    /\ pc # "stopped"
    /\ pc' = "stopped"
    /\ Finally("Shutting down...")
    /\ photos' \in {photos} \cup
                   (IF pc = "capture" THEN {photos \cup {now}} ELSE {})
    /\ flagged' \in {flagged} \cup
                    (IF pc = "notext"
                     THEN {flagged \cup {CroppedName(attempt.photo_path)}}
                     ELSE {})
    /\ UNCHANGED << env, frame, previous_distance, wakeAt, attempt, snapshot,
                    ledger, roster, obs, side, probe, units >>

InitStop ==
    /\ InitCommon
    /\ script = << >>
    /\ pending \in Scripts(StopFeed, FeedLen)

NextStop ==
    Tick \/ ArriveNext \/ ReadLine \/ Cycle \/ TransportLost \/ KeyboardInterrupt

SpecStop == InitStop /\ [][NextStop]_vars


(***************************************************************************)
(* Observers used by the properties.                                       *)
(***************************************************************************)
\* The trigger is in Cooldown: less than 4 seconds have passed since it fired.
InCooldown == cooldownUntil # NONE /\ now < cooldownUntil

\* The frame the loop is about to read, when the line is accepted.
HeadLine == Strip(LineText[Head(inbuf).line])
HeadFrame == ParseSerialLine(HeadLine)
HeadAccepted == StartsWith(HeadLine, DistancePrefix) /\ HeadFrame.ok

\* A capture cycle starts in this step.
Fires == ReadLine /\ pc' = "capture"

\* A cycle has just run to its end and the loop has not gone on yet.
CycleEnded == pc = "sleep"

\* The raw photo of the cycle.
Raw == attempt.photo_path

\* Rows appended to verification_log since the cycle started.
Appended == Len(ledger) - before.ledger

(***************************************************************************)
(* C1: for every successfully parsed frame, a capture cycle starts if and  *)
(* only if the distance is strictly below the threshold and the trigger is *)
(* not in Cooldown at that moment.                                         *)
(***************************************************************************)
C1_FiresIffBelowAndNotInCooldown ==
    [][ (ReadLine /\ HeadAccepted)
          => ((pc' = "capture")
                <=> (HeadFrame.distance < DISTANCE_THRESHOLD /\ ~InCooldown)) ]_vars

(***************************************************************************)
(* C2: after a firing, whatever the outcome of the cycle, no capture fires *)
(* before the cooldown of 4 seconds has elapsed, and while the cooldown is *)
(* active cooldownUntil does not decrease.                                 *)
(***************************************************************************)
C2_NoFiringDuringCooldown ==
    [][ /\ (Fires => ~InCooldown)
        /\ (InCooldown => cooldownUntil' >= cooldownUntil) ]_vars

(***************************************************************************)
(* C3: threshold 10, cooldown 4, distances 60, 60, 8, 8, 8, 60, 8 one      *)
(* second apart: exactly two cycles start, at the first 8 (line 3) and at  *)
(* the final 8 (line 7); the second and third 8 (lines 4, 5) start none.   *)
(***************************************************************************)
FeedConsumed == script = << >> /\ inbuf = << >> /\ pc = "poll"

C3_DebounceScenarioFiresTwice ==
    /\ \A i \in 1 .. Len(fired) : fired[i] \in {3, 7}
    /\ FeedConsumed => fired = << 3, 7 >>

(***************************************************************************)
(* C4: at most one capture cycle is in progress at any time, whatever      *)
(* lines arrive: a cycle never starts before the previous one has ended.   *)
(***************************************************************************)
C4_AtMostOneCycle ==
    /\ inflight \in {0, 1}
    /\ inflight = 1 <=> pc \notin {"poll", "sleep", "stopped"}

\* A near frame waits in the buffer while a cycle is in progress.
C4_Witness ==
    /\ inflight = 1
    /\ pc \in {"detect", "ocr", "verify"}
    /\ inbuf # << >>
    /\ HeadAccepted
    /\ Triggers(HeadFrame.distance)

C9_CropOrRawIsFlagged ==
    (CycleEnded /\ disp = "FLAGGED_NO_TEXT")
      => (CroppedName(Raw) \in flagged \/ FullName(Raw) \in flagged)

(***************************************************************************)
(* C10: when the capture fails the cycle ends as CAPTURE_FAILED: no        *)
(* detection, OCR or roster lookup has been invoked, no file has been      *)
(* created, moved or deleted, no row has been appended to the ledger, and  *)
(* the loop is back at reading the next line.                              *)
(***************************************************************************)
C10_CaptureFailed ==
    (disp = "CAPTURE_FAILED")
      => /\ calls = {}
         /\ Raw = NONE
         /\ photos = before.photos
         /\ flagged = before.flagged
         /\ Appended = 0
         /\ inflight = 0
         /\ pc = "poll"

\* After a failed capture the loop has read a further frame.
C10_Witness ==
    /\ disp = "CAPTURE_FAILED"
    /\ previous_distance # NONE
    /\ ~Triggers(previous_distance)

(***************************************************************************)
(* C11: the ledger is append-only.  As stated: every cycle that reaches    *)
(* the recognition step (its text is handed to the roster verification)    *)
(* adds exactly one row, so that the number of rows equals the number of   *)
(* such cycles, and no other step changes the ledger.                      *)
(***************************************************************************)
\* The step in which verify_scanned_plate runs.
VerifyStep == pc = "verify" /\ pc' # "verify"

C11_OneRowPerRecognition ==
    [][ /\ VerifyStep => Len(ledger') = Len(ledger) + 1
        /\ ~VerifyStep => ledger' = ledger ]_vars

(***************************************************************************)
(* C11, amended: the rows already in the ledger never change and never go  *)
(* away; a step adds at most one row, only verify_scanned_plate adds one,  *)
(* it is called only with a non-empty text, and it adds its row exactly    *)
(* when its INSERT succeeds.  The number of rows is thus the number of     *)
(* verifications whose INSERT succeeded, at most the number of cycles      *)
(* that reached the verification.                                          *)
(***************************************************************************)
C11_LedgerAppendOnly ==
    [][ /\ Len(ledger') \in {Len(ledger), Len(ledger) + 1}
        /\ SubSeq(ledger', 1, Len(ledger)) = ledger
        /\ ledger' # ledger => (VerifyStep /\ attempt.plate_text # "")
        /\ VerifyStep => (Len(ledger') = Len(ledger) + 1 <=> ~fault') ]_vars

\* A second verified cycle has added its row after the row of the first.
C11_Witness ==
    /\ CycleEnded
    /\ Len(ledger) = 2
    /\ before.ledger = 1
    /\ "lookup" \in calls

(***************************************************************************)
(* C12: a failure of a filing action (os.remove, os.rename, cv2.imwrite)   *)
(* of a cycle whose capture succeeded neither aborts the cycle nor ends    *)
(* the loop: the loop is never stopped with the cycle unfinished.          *)
(***************************************************************************)
\* The loop has left "while True" through "except Exception".
LoopStopped == pc = "stopped"

C12_FilingFailureIsNotFatal ==
    (fault /\ Raw # NONE) => ~LoopStopped

(***************************************************************************)
(* C13: a cycle never hands an exception to the loop: a failed detection   *)
(* counts as no region with confidence 0, a failed OCR as the empty text   *)
(* with confidence 0, and every cycle that is over has ended in one of the *)
(* five dispositions.                                                      *)
(***************************************************************************)
Dispositions ==
    {"AUTHORIZED", "UNAUTHORIZED", "FLAGGED_NO_PLATE", "FLAGGED_NO_TEXT",
     "CAPTURE_FAILED"}

\* A cycle has started and none is in progress.
CycleOver == cooldownUntil # NONE /\ inflight = 0

C13_CycleEndsInADisposition ==
    /\ CycleOver => disp \in Dispositions
    /\ (CycleOver /\ "detect" \in calls /\ ~attempt.cropped)
         => (attempt.yolo_conf = 0 /\ "ocr" \notin calls)
    /\ (CycleOver /\ "ocr" \in calls /\ attempt.plate_text = "")
         => (attempt.ocr_conf = 0 /\ "lookup" \notin calls)

(***************************************************************************)
(* The text of the line the loop is about to read, field by field.         *)
(***************************************************************************)
\* Its comma-separated fields.
HeadFields == Split(HeadLine, ",")

\* The label of a field: the text before its first colon.
LabelOf(field) == Strip(Split(field, ":")[1])

\* The value of a field: the text after its last colon.
ValueOf(field) == Strip(Split(field, ":")[Len(Split(field, ":"))])

HeadValue(k) == ValueOf(HeadFields[k])

\* The line has the three fields and starts with the distance label.
HeadWellShaped == Len(HeadFields) = 3 /\ StartsWith(HeadLine, DistancePrefix)

HasDigit(v) == \E i \in 1 .. Len(v) : v[i] \in Digits

\* v is a number and nothing else: sign, digits, point, digits.
IsNumber(v) == v # << >> /\ MatchEnd(v, 1) = Len(v) + 1

\* v is a number directly followed by a unit suffix, which holds no digit.
UnitSuffixed(v) ==
    \E k \in 1 .. Len(v) :
        /\ IsNumber(SubSeq(v, 1, k))
        /\ ~HasDigit(Slice(v, k + 1, Len(v)))

\* The longest numeric substring of v, the leftmost of the longest ones.
NumericSpans(v) ==
    { p \in (1 .. Len(v)) \X (1 .. Len(v)) :
        p[1] <= p[2] /\ IsNumber(SubSeq(v, p[1], p[2])) }

LongestNumeric(v) ==
    LET best == CHOOSE p \in NumericSpans(v) :
                    \A q \in NumericSpans(v) :
                        \/ q[2] - q[1] < p[2] - p[1]
                        \/ q[2] - q[1] = p[2] - p[1] /\ q[1] >= p[1]
    IN  SubSeq(v, best[1], best[2])

\* The number a value stands for, in tenths.
NumberOf(v) == FloatTenths(LongestNumeric(v))

(***************************************************************************)
(* C14: a line whose distance field is "N/A" or holds no number is         *)
(* rejected whatever its temperature and battery fields hold: no frame is  *)
(* returned, and the loop, the snapshot, the ledger and the files stay as  *)
(* they are.                                                               *)
(***************************************************************************)
HeadDistanceUnavailable ==
    /\ StartsWith(HeadLine, DistancePrefix)
    /\ HeadValue(1) = NA \/ ~HasDigit(HeadValue(1))

C14_DistanceUnavailableRejects ==
    [][ (ReadLine /\ HeadDistanceUnavailable)
          => (~HeadFrame.ok /\ UNCHANGED << loop, store >>) ]_vars

\* "distance: N/A, temperature: 70, battery: 50" has been read after an
\* accepted line, whose frame and snapshot are still there.
C14_Witness ==
    /\ sent = << 1, 4 >>
    /\ inbuf = << >>
    /\ pc = "poll"
    /\ frame.distance = 600
    /\ snapshot.distance = 600

(***************************************************************************)
(* C15: a line with a numeric distance and "N/A" for the temperature, the  *)
(* battery or both is accepted: the frame carries the distance, and the    *)
(* published snapshot holds null for the temperature exactly when the      *)
(* temperature field is "N/A", and likewise for the battery.               *)
(***************************************************************************)
HeadHasNAField ==
    /\ HeadWellShaped
    /\ HasDigit(HeadValue(1))
    /\ HeadValue(2) = NA \/ HeadValue(3) = NA

C15_NAFieldsAreTheNullFields ==
    [][ (ReadLine /\ HeadHasNAField)
          => /\ HeadFrame.ok
             /\ frame'.distance = NumberOf(HeadValue(1))
             /\ snapshot'.distance = NumberOf(HeadValue(1))
             /\ snapshot'.temperature = NONE <=> HeadValue(2) = NA
             /\ snapshot'.battery = NONE <=> HeadValue(3) = NA ]_vars

(***************************************************************************)
(* C16: the parser returns a frame or a rejection for every line and never *)
(* raises; a line that has not exactly three comma-separated fields, or    *)
(* that has non-numeric residue in a field (more than a number and its     *)
(* unit suffix), is rejected; a rejection leaves the trigger state, the    *)
(* snapshot, the ledger and the files as they are and the loop ready for   *)
(* the next line.                                                          *)
(***************************************************************************)
\* v is neither "N/A" nor a number with its unit suffix, and holds digits.
HasResidue(v) == v # NA /\ HasDigit(v) /\ ~UnitSuffixed(v)

HeadMalformed ==
    \/ Len(HeadFields) # 3
    \/ \E k \in 1 .. 3 : HasResidue(HeadValue(k))

C16_MalformedLineRejected ==
    [][ ReadLine
          => /\ HeadFrame.ok \in BOOLEAN
             /\ HeadMalformed => ~HeadAccepted
             /\ ~HeadAccepted => (UNCHANGED << loop, store >> /\ pc' = "poll") ]_vars

(***************************************************************************)
(* C17: a line is accepted only if its three fields are labeled distance,  *)
(* temperature and battery, in this order.                                 *)
(***************************************************************************)
FieldLabels ==
    << <<"d","i","s","t","a","n","c","e">>,
       <<"t","e","m","p","e","r","a","t","u","r","e">>,
       <<"b","a","t","t","e","r","y">> >>

HeadLabels == [k \in 1 .. Len(HeadFields) |-> LabelOf(HeadFields[k])]

C17_OnlyLabeledInOrder ==
    [][ (ReadLine /\ HeadAccepted) => HeadLabels = FieldLabels ]_vars

(***************************************************************************)
(* C18: in a line of three fields that starts with the distance label, a   *)
(* value made of a number directly followed by a unit suffix yields that   *)
(* number, the longest numeric substring of the value, and a value with no *)
(* numeric substring counts as the sentinel: the line is rejected when it  *)
(* is the distance, the field is null in the snapshot when it is the       *)
(* temperature or the battery.                                             *)
(***************************************************************************)
C18_UnitSuffixStripped ==
    [][ (ReadLine /\ HeadWellShaped)
          => /\ ~HasDigit(HeadValue(1)) => ~HeadFrame.ok
             /\ UnitSuffixed(HeadValue(1))
                  => (HeadFrame.ok /\ frame'.distance = NumberOf(HeadValue(1)))
             /\ (HeadFrame.ok /\ UnitSuffixed(HeadValue(2)))
                  => frame'.temp = NumberOf(HeadValue(2))
             /\ (HeadFrame.ok /\ UnitSuffixed(HeadValue(3)))
                  => frame'.battery = NumberOf(HeadValue(3))
             /\ (HeadFrame.ok /\ ~HasDigit(HeadValue(2)))
                  => snapshot'.temperature = NONE
             /\ (HeadFrame.ok /\ ~HasDigit(HeadValue(3)))
                  => snapshot'.battery = NONE ]_vars


\* The step in which the loop reads the waiting line.
ReadsLine == LoopReady /\ inbuf' = Tail(inbuf)

\* The step in which save_latest_sensor_data returns.
PublishEnds == pc = "publish" /\ pc' # "publish"

\* C19 as stated: the snapshot is published once for every accepted frame,
\* whether or not the frame triggers a capture or the trigger is in Cooldown,
\* and never for a rejected line; when the publisher returns the snapshot
\* holds the values of the frame, and nothing else changes the snapshot.
C19_SnapshotHoldsLastAcceptedFrame ==
    [][ /\ (ReadsLine /\ HeadAccepted) => pc' = "publish"
        /\ (ReadsLine /\ ~HeadAccepted) => (pc' = "poll" /\ snapshot' = snapshot)
        /\ PublishEnds =>
              (snapshot' = data.dict /\ data.dict.distance = frame.distance)
        /\ (pc # "publish" /\ ~ReadsLine) => snapshot' = snapshot
      ]_vars

\* C19, amended: one write of the snapshot is attempted for every accepted
\* frame, with the values of that frame, whether or not the frame triggers a
\* capture or the trigger is in Cooldown, and none for a rejected line; the
\* snapshot holds the values of the frame when the write succeeded, and a
\* write that failed is logged and leaves the file as it was when it failed:
\* the earlier content when open failed, a truncated file when the dump did.
C19_WriteAttemptedOncePerFrame ==
    [][ /\ (ReadsLine /\ HeadAccepted) =>
              /\ pc' = "publish"
              /\ data'.dict = SensorData(HeadFrame.temp, HeadFrame.battery,
                                         HeadFrame.distance)
              /\ data'.failed = ~data'.open
              /\ snapshot' = IF data'.open THEN TruncatedFile ELSE snapshot
        /\ (ReadsLine /\ ~HeadAccepted) =>
              (pc' = "poll" /\ snapshot' = snapshot /\ data' = data)
        /\ PublishEnds =>
              /\ snapshot' = IF data'.failed THEN snapshot ELSE data.dict
              /\ ~data'.failed => data.open
              /\ data.dict.distance = frame.distance
              /\ pc' = IF Triggers(frame.distance) THEN "capture" ELSE "poll"
        /\ (~ReadsLine /\ ~PublishEnds) => (snapshot' = snapshot /\ data' = data)
      ]_vars

\* A far frame read in Cooldown, after a near frame whose capture failed, has
\* been written: the snapshot holds its values.
C19_Witness ==
    /\ sent = << 3, 1 >>
    /\ inbuf = << >>
    /\ pc = "poll"
    /\ InCooldown
    /\ disp = "CAPTURE_FAILED"
    /\ ~data.failed
    /\ snapshot = data.dict
    /\ data.dict.distance = 600
    /\ frame.distance = 600


\* C20: load_sensor_data, at whatever moment it runs beside a publish whose
\* write does not fail, returns the values of a complete snapshot, the
\* previous one or the new one, never the result of an empty or truncated file.
C20_ReaderSeesCompleteSnapshot ==
    [][ (seen' # seen /\ ~data.failed) =>
            /\ seen'.status # "Error reading data"
            /\ seen' \in {LoadResult(snapshot), LoadResult(data.dict)}
      ]_vars


\* The line the loop is about to read carries the frame that was published
\* last, and that publish succeeded: the snapshot holds its dict.
SameFrameAgain ==
    /\ ReadsLine
    /\ HeadAccepted
    /\ frame = [distance |-> HeadFrame.distance, temp |-> HeadFrame.temp,
                battery |-> HeadFrame.battery]
    /\ ~data.failed
    /\ snapshot = data.dict

\* C21 as stated: the dict written when the same frame is published a second
\* time equals the snapshot the first publish left, in all four fields.
C21_PublishIdempotent ==
    [][ SameFrameAgain => data'.dict = snapshot ]_vars


\* C22: the loop starts a capture for an accepted frame exactly when the
\* distance of that frame is below the threshold, whatever previous_distance
\* holds; the first frame of a run, which has no previous distance, starts a
\* capture when it is below the threshold.
C22_TriggerUsesAbsoluteDistanceOnly ==
    [][ (ReadsLine /\ HeadAccepted) =>
            /\ (pc' = "capture") <=> (HeadFrame.distance < DISTANCE_THRESHOLD)
            /\ (pc' # "capture") => pc' = "poll"
            /\ previous_distance = NONE /\ HeadFrame.distance < DISTANCE_THRESHOLD
                  => (pc' = "capture" /\ inflight' = inflight + 1)
      ]_vars

\* The first frame of the run was below the threshold and has started a
\* capture at once.
C22_Witness ==
    /\ pc = "capture"
    /\ previous_distance = NONE
    /\ ledger = << >>
    /\ flagged = {}
    /\ frame.distance # NONE
    /\ frame.distance < DISTANCE_THRESHOLD
    /\ inflight = 1
    /\ cooldownUntil = now + RETRIGGER_SLEEP


\* C23: whenever the loop is back at the port after an accepted frame, be it
\* a frame that started no capture, one whose capture failed or one whose
\* cycle ended in a disposition, previous_distance is the distance of that
\* frame.
C23_PreviousDistanceIsLastFrame ==
    (pc = "poll" /\ frame # NoFrame) => previous_distance = frame.distance

\* A cycle has ended in a disposition, the sleep is over and the loop is back
\* at the port: previous_distance is the distance of the near frame.
C23_Witness ==
    /\ pc = "poll"
    /\ disp \in {"AUTHORIZED", "UNAUTHORIZED", "FLAGGED_NO_PLATE",
                 "FLAGGED_NO_TEXT"}
    /\ inflight = 0
    /\ frame.distance # NONE
    /\ frame.distance < DISTANCE_THRESHOLD
    /\ previous_distance = frame.distance


\* The step in which a call on the port raises in the loop.
TransportFails == pc = "poll" /\ sys.diag = "NONE" /\ sys'.diag = "Fatal error"

C25_StopLetsTheCycleFinish ==
    (pc = "stopped" /\ sys.diag = "Shutting down...") =>
        (inflight = 0 /\ photos = {})


\* The cycle has ended after a roster verification whose INSERT failed.
EndedWithoutRow == CycleEnded /\ "lookup" \in calls /\ Appended = 0

\* C26: a failed write of the snapshot is logged and the trigger test that
\* follows it is the one of the frame; a failed INSERT is logged and the
\* cycle goes on to the filing of the match the lookup found; neither ends
\* the loop.
C26_WriteFailureChangesNoOutcome ==
    [][ /\ PublishEnds =>
              /\ pc' = IF frame.distance < DISTANCE_THRESHOLD
                       THEN "capture" ELSE "poll"
              /\ (snapshot' # data.dict) => data'.failed
              /\ sys' = Running
        /\ VerifyStep =>
              /\ pc' = IF attempt'.match_found THEN "authorized"
                       ELSE "unauthorized"
              /\ (ledger' = ledger) => fault'
              /\ sys' = Running
        /\ EndedWithoutRow =>
              /\ disp = IF attempt.match_found THEN "AUTHORIZED"
                        ELSE "UNAUTHORIZED"
              /\ Raw \notin photos
              /\ (FullName(Raw) \in flagged) <=> ~attempt.match_found
      ]_vars

\* The write of the snapshot of a near frame failed and the cycle started
\* all the same; its INSERT failed and the photo was filed as UNAUTHORIZED.
C26_Witness ==
    /\ pc = "sleep"
    /\ data.failed
    /\ snapshot # data.dict
    /\ EndedWithoutRow
    /\ disp = "UNAUTHORIZED"
    /\ FullName(Raw) \in flagged
    /\ sys = Running


\* The overall confidence of the attempt has been computed.
Scored == pc \in {"verify", "notext", "authorized", "unauthorized"}

\* C27: the overall confidence is the mean of the detection and recognition
\* confidences rounded to the thousandth, at most half a thousandth from the
\* mean, 0.850 for 0.9 and 0.8; it is the confidence of the row the roster
\* verification writes.
C27_ConfidenceIsRoundedMean ==
    [][ /\ Scored =>
              /\ 2 * attempt.confidence - (attempt.yolo_conf + attempt.ocr_conf)
                    \in {-1, 0, 1}
              /\ (attempt.yolo_conf = 900 /\ attempt.ocr_conf = 800)
                    => attempt.confidence = 850
        /\ (VerifyStep /\ ledger' # ledger) =>
              ledger'[Len(ledger')].confidence = attempt.confidence
      ]_vars

\* Detection 0.9 and recognition 0.8: the row in the ledger carries 0.850.
C27_Witness ==
    /\ pc \in {"authorized", "unauthorized"}
    /\ attempt.yolo_conf = 900
    /\ attempt.ocr_conf = 800
    /\ Len(ledger) = 1
    /\ ledger[1].confidence = 850


\* The cleaned texts of the spans readtext returned, in their order, joined.
Joined == Join(Kept(readtext.result))

\* a is b with some characters left out.
RECURSIVE IsSubsequence(_, _)
IsSubsequence(a, b) ==
    IF a = << >> THEN TRUE
    ELSE IF b = << >> THEN FALSE
    ELSE IF Head(a) = Head(b) THEN IsSubsequence(Tail(a), Tail(b))
    ELSE IsSubsequence(a, Tail(b))

\* old occurs in s.
Occurs(old, s) ==
    \E i \in 1 .. Len(s) - Len(old) + 1 : SubSeq(s, i, i + Len(old) - 1) = old

\* C28 as stated: the text is the cleaned spans joined in their order and the
\* confidence is the average of the confidences of the spans returned; no
\* span gives "" and 0.0.
C28_TextIsTheSpansJoined ==
    (plate_read.called /\ readtext.ok) =>
        /\ plate_read.plate_text = Joined
        /\ IF readtext.result = << >>
           THEN plate_read.avg_conf = 0
           ELSE plate_read.avg_conf * Len(readtext.result)
                   = SumConfs(readtext.result)

\* C28, amended: no span, no span with an alphanumeric character, or an
\* engine that raised, give "" and 0.0.  Otherwise the confidence is the
\* average over the spans that keep a character when cleaned, and the text
\* is cut out of the joined cleaned spans: it has 8 characters at the most,
\* its characters are characters of the joined text in their order, and it
\* is the joined text whenever that has 8 characters at the most and holds
\* neither "TEXAS" nor "THELONESTARSTATE".
C28_TextIsCutFromTheSpansJoined ==
    plate_read.called =>
        IF ~readtext.ok \/ Joined = << >>
        THEN plate_read.plate_text = << >> /\ plate_read.avg_conf = 0
        ELSE /\ plate_read.avg_conf * Len(Kept(readtext.result))
                   = SumConfs(Kept(readtext.result))
             /\ Len(plate_read.plate_text) <= 8
             /\ IsSubsequence(plate_read.plate_text, Joined)
             /\ (Len(Joined) <= 8 /\ ~Occurs(Texas, Joined)
                    /\ ~Occurs(LoneStar, Joined))
                   => plate_read.plate_text = Joined

\* readtext returned "TEXAS" and "ABC-123": the text is ABC123, not
\* TEXASABC123.
C28_Witness ==
    /\ plate_read.called
    /\ readtext.ok
    /\ Len(readtext.result) = 2
    /\ readtext.result[1].text = Texas
    /\ Joined = Texas \o << "A", "B", "C", "1", "2", "3" >>
    /\ plate_read.plate_text = << "A", "B", "C", "1", "2", "3" >>
    /\ plate_read.avg_conf = 750

\* The cycle is at the filing of its photo.
Filing == pc \in {"authorized", "unauthorized", "noplate", "notext"}

\* Stems of the files in the flagged area.
FlaggedStems == { f[1] : f \in flagged }

(***************************************************************************)
(* C29: file names are collision-free.  A capture writes to a path of the  *)
(* raw area that no earlier successful capture of the run was written to:  *)
(* when capture_photo() is about to run, no raw photo and no flagged file  *)
(* carries the timestamp it would take.  No flagged file is overwritten by *)
(* a later cycle's filing: while a cycle is between its capture and its    *)
(* filing, the flagged area holds no file under the stem of its raw photo, *)
(* and its raw photo is the only file of the raw area.                     *)
(***************************************************************************)
C29_FileNamesCollisionFree ==
    /\ pc = "capture" => (now \notin photos /\ now \notin FlaggedStems)
    /\ (pc \in {"detect", "ocr", "verify"} \/ Filing)
         => (photos = {Raw} /\ Raw \notin FlaggedStems)

\* A second cycle of the run is about to file its photo while the file of an
\* earlier cycle is in the flagged area.
C29_Witness ==
    /\ pc \in {"unauthorized", "noplate", "notext"}
    /\ flagged # {}
    /\ photos = {Raw}
    /\ Raw \notin FlaggedStems

\* The cycle has ended after a capture that succeeded: it reached
\* time.sleep(4), or an exception of its filing took it out of the loop.
CycleWithPhotoEnded ==
    /\ attempt.photo_path # NONE
    /\ CycleEnded \/ (LoopStopped /\ sys.diag = "Fatal error")

(***************************************************************************)
(* C30: after every cycle whose capture succeeded, on every path, the raw  *)
(* photo no longer exists in the raw capture area: it has been deleted or  *)
(* moved to the flagged area.                                              *)
(***************************************************************************)
C30_RawPhotoLeavesTheRawArea == CycleWithPhotoEnded => Raw \notin photos

(***************************************************************************)
(* C31: every three-field line whose distance field holds a numeric value  *)
(* is accepted with exactly that value as the distance of the frame, and   *)
(* every numeric temperature or battery value of an accepted line is       *)
(* published unchanged: no numeric reading (-1 for the distance or the     *)
(* battery, -999 for the temperature) is taken for "not available".        *)
(***************************************************************************)
C31_NoReadingTakenForSentinel ==
    [][ (ReadLine /\ HeadWellShaped)
          => /\ UnitSuffixed(HeadValue(1))
                  => /\ HeadFrame.ok
                     /\ frame'.distance = NumberOf(HeadValue(1))
                     /\ snapshot'.distance = NumberOf(HeadValue(1))
             /\ (HeadFrame.ok /\ UnitSuffixed(HeadValue(2)))
                  => snapshot'.temperature = NumberOf(HeadValue(2))
             /\ (HeadFrame.ok /\ UnitSuffixed(HeadValue(3)))
                  => snapshot'.battery = NumberOf(HeadValue(3)) ]_vars

\* The threads of the SerialReader that are alive.
AliveThreads == { t \in Threads : IsAlive(t) }

(***************************************************************************)
(* C32: for any sequence of start() and stop() calls of a SerialReader, at *)
(* most one of its reader threads is alive at any time.                    *)
(***************************************************************************)
C32_AtMostOneReaderThread == Cardinality(AliveThreads) <= 1

\* The first thread has read a line and has ended on stop(); a later
\* start() has created the second thread, which is the only one alive.
C32_Witness ==
    /\ reader.thread = 2
    /\ AliveThreads = {2}
    /\ reader.where[1] = "done"
    /\ reader.reads >= 1

(***************************************************************************)
(* C33: whenever start() has returned and the port could be opened, a      *)
(* reader thread is running until the next stop(), also when start() was   *)
(* called after a stop() whose join had timed out.                         *)
(***************************************************************************)
C33_StartLeavesALiveReader ==
    (reader.wanted /\ reader.where[reader.thread] # "failed")
        => IsAlive(reader.thread)

C35_RegisteredPlateVerifies ==
    (db.op = "verify" /\ ~db.failed)
        => \A s \in roster :
              s.license_plate = db.plate
                  => (db.ok /\ db.match = s.student_id)

\* No two rows of students share a student_id or a license_plate.
RosterUnique ==
    \A s1 \in roster, s2 \in roster :
        (s1.student_id = s2.student_id \/ s1.license_plate = s2.license_plate)
            => s1 = s2

(***************************************************************************)
(* C36: add_student returns False and leaves the roster as it is when the  *)
(* student_id or the license_plate is already registered, and after any    *)
(* sequence of add_student and delete_student calls no two roster entries  *)
(* share a student_id or a license_plate.                                  *)
(***************************************************************************)
C36_NoDuplicateRegistration ==
    [][ /\ RosterUnique'
        /\ \A student_id \in StudentIds, license_plate \in PlateTexts :
              (/\ AddStudent(student_id, license_plate)
               /\ \E s \in roster : \/ s.student_id = student_id
                                    \/ s.license_plate = license_plate)
                  => (~db'.ok /\ roster' = roster) ]_vars

\* add_student has returned False for a new student_id with a plate that
\* another student holds, after an add and a delete had succeeded.
C36_Witness ==
    /\ db.op = "add"
    /\ ~db.ok
    /\ ~db.failed
    /\ db.student_id = "S2"
    /\ roster = { [student_id |-> "S1", license_plate |-> "ZZZ999"] }
    /\ db.plate = "ZZZ999"

(***************************************************************************)
(* C37: in watch mode each image placed in the folder is run through the   *)
(* pipeline at most once, for every setting of move_processed: once a scan *)
(* has handled it the image has left the watched folder, and it gets no    *)
(* second log line and no second need_verification copy.                   *)
(***************************************************************************)
C37_ImageProcessedOnce ==
    \A i \in Images :
        /\ watch.runs[i] <= 1
        /\ watch.lines[i] <= 1
        /\ watch.copies[i] <= 1
        /\ i \in watch.scanned => i \notin watch.folder

====
